---- MODULE Spec2Model ----
(***************************************************************************)
(* YAIL: the compiler (AST -> bytecode), its symbol table and the stack    *)
(* virtual machine that runs the bytecode.                                 *)
(*                                                                         *)
(* The compiler and the symbol table are translated from compiler.go and   *)
(* symbol_table.go.  The packages code (opcodes, Make) and vm are not part *)
(* of the sources at hand; they are modelled from sections 4.2 and 4.5 of  *)
(* the specification.                                                      *)
(***************************************************************************)
EXTENDS Integers, Sequences, FiniteSets, TLC

VARIABLES
    program,    \* the parsed program: indices into Catalog, in source order
    phase,      \* "compile", "compiled", "run", "done", "compile_error", "runtime_error"
    comp,       \* the Compiler
    vm,         \* the VM: constants, stack, sp, globals, frames, framesIndex, err
    calls,      \* history: one record per active call of a compiled function
    loaded,     \* history: constants indices pushed by Constant in the main frame
    saved,      \* history: the compiler's table and scope index at each enterScope
    repl        \* RunVm: the symbol table, constants and globals shared by its cycles

vars == <<program, phase, comp, vm, calls, loaded, saved, repl>>

(***************************************************************************)
(* Bounds                                                                  *)
(***************************************************************************)
MaxStmts == 2        \* top-level statements of a generated program
MaxScopeDepth == 2   \* nested enterScope calls in the scope exploration
MaxDefs == 3         \* definitions per symbol table in the scope exploration
MaxCycles == 3       \* lines read by RunVm
MaxTableCalls == 4   \* calls made on one symbol table
MaxLen == 3          \* elements of an array literal
MaxAttrs == 2        \* attributes of a declared struct
MaxArgs == 3         \* arguments passed to a built-in

(***************************************************************************)
(* code: opcodes and instruction encoding                                  *)
(***************************************************************************)
\* the opcodes in the order of their declaration: the byte of an opcode is its rank
Opcodes ==
    << "OpConstant", "OpPop", "OpAdd", "OpSub",
       "OpMul", "OpDiv", "OpTrue", "OpFalse",
       "OpNull", "OpEqual", "OpNotEqual", "OpGreaterThan",
       "OpMinus", "OpBang", "OpJumpNotTruthy", "OpJump",
       "OpSetGlobal", "OpGetGlobal", "OpSetLocal", "OpGetLocal",
       "OpGetBuiltin", "OpArray", "OpStruct", "OpGetAttribute",
       "OpIndex", "OpCall", "OpReturn", "OpReturnValue" >>

Opcode(name) == (CHOOSE i \in 1..Len(Opcodes) : Opcodes[i] = name) - 1

OpConstant == Opcode("OpConstant")
OpPop == Opcode("OpPop")
OpAdd == Opcode("OpAdd")
OpSub == Opcode("OpSub")
OpMul == Opcode("OpMul")
OpDiv == Opcode("OpDiv")
OpTrue == Opcode("OpTrue")
OpFalse == Opcode("OpFalse")
OpNull == Opcode("OpNull")
OpEqual == Opcode("OpEqual")
OpNotEqual == Opcode("OpNotEqual")
OpGreaterThan == Opcode("OpGreaterThan")
OpMinus == Opcode("OpMinus")
OpBang == Opcode("OpBang")
OpJumpNotTruthy == Opcode("OpJumpNotTruthy")
OpJump == Opcode("OpJump")
OpSetGlobal == Opcode("OpSetGlobal")
OpGetGlobal == Opcode("OpGetGlobal")
OpSetLocal == Opcode("OpSetLocal")
OpGetLocal == Opcode("OpGetLocal")
OpGetBuiltin == Opcode("OpGetBuiltin")
OpArray == Opcode("OpArray")
OpStruct == Opcode("OpStruct")
OpGetAttribute == Opcode("OpGetAttribute")
OpIndex == Opcode("OpIndex")
OpCall == Opcode("OpCall")
OpReturn == Opcode("OpReturn")
OpReturnValue == Opcode("OpReturnValue")

\* width in bytes of the operand of each opcode (0: no operand)
OperandWidth(op) ==
    IF op \in {OpConstant, OpJumpNotTruthy, OpJump, OpSetGlobal, OpGetGlobal,
               OpArray, OpStruct, OpGetAttribute} THEN 2
    ELSE IF op \in {OpSetLocal, OpGetLocal, OpGetBuiltin, OpCall} THEN 1
    ELSE 0

\* one opcode byte followed by the big-endian operand
Make(op, operand) ==
    IF OperandWidth(op) = 2
    THEN <<op, (operand % 65536) \div 256, operand % 256>>
    ELSE IF OperandWidth(op) = 1 THEN <<op, operand % 256>>
    ELSE <<op>>

\* ins is 1-based here; offset is the 0-based byte offset of the operand
ReadUint16(ins, offset) == ins[offset + 1] * 256 + ins[offset + 2]

ReadUint8(ins, offset) == ins[offset + 1]

\* the operand of the instruction whose opcode byte is at offset pos
OperandAt(ins, pos) ==
    IF OperandWidth(ins[pos + 1]) = 2 THEN ReadUint16(ins, pos + 1)
    ELSE IF OperandWidth(ins[pos + 1]) = 1 THEN ReadUint8(ins, pos + 1)
    ELSE 0

(***************************************************************************)
(* object: runtime values                                                  *)
(***************************************************************************)
Integer(n) == [t |-> "INTEGER", i |-> n]

Float(n) == [t |-> "FLOAT", f |-> n]

Boolean(v) == [t |-> "BOOLEAN", b |-> v]

String(s) == [t |-> "STRING", s |-> s]

Null == [t |-> "NULL"]

Array(es) == [t |-> "ARRAY", Elements |-> es]

Struct(attrs) == [t |-> "STRUCT", Attributes |-> attrs]

CompiledFunction(ins, nl, np) ==
    [t |-> "COMPILED_FUNCTION", Instructions |-> ins, NumLocals |-> nl, NumParameters |-> np]

Builtin(k) == [t |-> "BUILTIN", k |-> k]

\* the names of object.Builtins, in table order
Builtins ==
    <<"len", "pow", "square_root", "gen", "write", "write_all", "write_string",
      "read", "read_all", "read_string">>

(***************************************************************************)
(* compiler: symbol table                                                  *)
(*                                                                         *)
(* The chain of tables is a sequence: tabs[1] is the table without Outer,  *)
(* tabs[k].Outer is tabs[k-1], and the compiler's current table is the     *)
(* last one.                                                               *)
(***************************************************************************)
GlobalScope == "GLOBAL"

LocalScope == "LOCAL"

BuiltinScope == "BUILTIN"

Symbol(name, scope, index) == [Name |-> name, Scope |-> scope, Index |-> index]

EmptyMap == [n \in {} |-> 0]

MapPut(m, k, v) == [n \in (DOMAIN m) \cup {k} |-> IF n = k THEN v ELSE m[n]]

NewSymbolTable == [store |-> EmptyMap, structs |-> EmptyMap, numDefinitions |-> 0]

\* the chain after NewEnclosedSymbolTable(current table)
NewEnclosedSymbolTable(tabs) == Append(tabs, NewSymbolTable)

\* Define on table k of the chain: <<chain, symbol>>
DefineAt(tabs, k, name) ==
    LET s == tabs[k]
        symbol == Symbol(name, IF k = 1 THEN GlobalScope ELSE LocalScope, s.numDefinitions)
    IN  [tabs |-> [tabs EXCEPT ![k] = [s EXCEPT !.store = MapPut(s.store, name, symbol),
                                               !.numDefinitions = s.numDefinitions + 1]],
         symbol |-> symbol]

\* Define on the current table
Define(tabs, name) == DefineAt(tabs, Len(tabs), name)

DefineBuiltin(tabs, index, name) ==
    LET s == tabs[Len(tabs)]
    IN  [tabs EXCEPT ![Len(tabs)] =
            [s EXCEPT !.store = MapPut(s.store, name, Symbol(name, BuiltinScope, index))]]

RECURSIVE ResolveAt(_, _, _)
ResolveAt(tabs, k, name) ==
    IF name \in DOMAIN tabs[k].store
    THEN [ok |-> TRUE, symbol |-> tabs[k].store[name]]
    ELSE IF k > 1 THEN ResolveAt(tabs, k - 1, name)
    ELSE [ok |-> FALSE, symbol |-> Symbol("", "", 0)]

\* Resolve on the current table
Resolve(tabs, name) == ResolveAt(tabs, Len(tabs), name)

\* ResolveStruct on the current table: no walk to Outer
\* a lookup of a struct type that goes on to the outer tables
ResolveStruct_Outer(tabs, name) ==
    LET found == {k \in 1..Len(tabs) : name \in DOMAIN tabs[k].structs}
    IN  IF found # {}
        THEN [ok |-> TRUE,
              symbol |-> tabs[CHOOSE k \in found : \A j \in found : j <= k].structs[name]]
        ELSE [ok |-> FALSE, symbol |-> [Name |-> "", Scope |-> "", Index |-> 0, Atributes |-> EmptyMap]]

ResolveStruct(tabs, name) ==
    LET s == tabs[Len(tabs)]
    IN  IF name \in DOMAIN s.structs
        THEN [ok |-> TRUE, symbol |-> s.structs[name]]
        ELSE [ok |-> FALSE, symbol |-> [Name |-> "", Scope |-> "", Index |-> 0, Atributes |-> EmptyMap]]

DefineStruct_NoBump(tabs, name) ==
    LET s == tabs[Len(tabs)]
        symbol == [Name |-> name, Scope |-> GlobalScope, Index |-> s.numDefinitions,
                   Atributes |-> EmptyMap]
    IN  [tabs EXCEPT ![Len(tabs)] = [s EXCEPT !.structs = MapPut(s.structs, name, symbol)]]

DefineStruct(tabs, name) ==
    LET s == tabs[Len(tabs)]
        symbol == [Name |-> name, Scope |-> GlobalScope, Index |-> s.numDefinitions,
                   Atributes |-> EmptyMap]
    IN  [tabs EXCEPT ![Len(tabs)] = [s EXCEPT !.structs = MapPut(s.structs, name, symbol),
                                               !.numDefinitions = s.numDefinitions + 1]]

DefineAttribute(tabs, structName, name, attr) ==
    LET t1 == IF structName \in DOMAIN tabs[Len(tabs)].structs THEN tabs
              ELSE DefineStruct(tabs, structName)
        s == t1[Len(t1)]
        sy == s.structs[structName]
    IN  [t1 EXCEPT ![Len(t1)] =
            [s EXCEPT !.structs = MapPut(s.structs, structName,
                [sy EXCEPT !.Atributes = MapPut(sy.Atributes, name, attr)])]]

(***************************************************************************)
(* ast: nodes.  A nil node is NoNode.                                      *)
(***************************************************************************)
NoNode == [kind |-> "nil"]

IntegerLiteral(n) == [kind |-> "IntegerLiteral", IntValue |-> n]

FloatLiteral(n) == [kind |-> "FloatLiteral", FloatValue |-> n]

BooleanLiteral(v) == [kind |-> "Boolean", BoolValue |-> v]

StringLiteral(s) == [kind |-> "StringLiteral", StrValue |-> s]

Identifier(name) == [kind |-> "Identifier", Name |-> name]

PrefixExpression(op, right) == [kind |-> "PrefixExpression", Operator |-> op, Right |-> right]

InfixExpression(left, op, right) ==
    [kind |-> "InfixExpression", Left |-> left, Operator |-> op, Right |-> right]

BlockStatement(stmts) == [kind |-> "BlockStatement", Statements |-> stmts]

IfExpression(cond, cons, alt) ==
    [kind |-> "IfExpression", Condition |-> cond, Consequence |-> cons, Alternative |-> alt]

ExpressionStatement(e) == [kind |-> "ExpressionStatement", Expression |-> e]

VariableStatement(type, name, value) ==
    [kind |-> "VariableStatement", Type |-> type, VarName |-> name, Value |-> value]

\* as a statement Name is the declared name; as an expression Name is ""
ArrayStatement(name, elements) ==
    [kind |-> "ArrayStatement", VarName |-> name, Elements |-> elements]

GlobalStatement(stmts) == [kind |-> "GlobalStatement", Body |-> stmts]

ConstStatement(stmts) == [kind |-> "ConstStatement", Body |-> stmts]

LocalStatement(stmts) == [kind |-> "LocalStatement", Body |-> stmts]

AssignmentStatement(left, value) ==
    [kind |-> "AssignmentStatement", Left |-> left, Value |-> value]

FunctionStatement(name, params, retType, isArray, body) ==
    [kind |-> "FunctionStatement", FnName |-> name, Parameters |-> params,
     ReturnType |-> retType, IsArray |-> isArray, Body |-> body]

CallExpression(fn, args) == [kind |-> "CallExpression", Function |-> fn, Arguments |-> args]

IndexExpression(left, index) == [kind |-> "IndexExpression", Left |-> left, Index |-> index]

AccessorExpression(left, attr) == [kind |-> "AccessorExpression", Left |-> left, Attr |-> attr]

Attribute(name, type, isArray, value) ==
    [kind |-> "Attribute", AttrName |-> name, Type |-> type, IsArray |-> isArray, Value |-> value]

StructNode(name, attrs) == [kind |-> "Struct", StructName |-> name, Attributes |-> attrs]

StructsStatement(structs) == [kind |-> "StructsStatement", Structs |-> structs]

WhileStatement(cond, body) == [kind |-> "WhileStatement", Condition |-> cond, Body |-> body]

(***************************************************************************)
(* compiler: the Compiler                                                  *)
(***************************************************************************)
EmittedInstruction(op, pos) == [Opcode |-> op, Position |-> pos]

CompilationScope ==
    [instructions |-> <<>>,
     lastInstruction |-> EmittedInstruction(0, 0),
     previousInstruction |-> EmittedInstruction(0, 0)]

RECURSIVE DefineBuiltins(_, _)
DefineBuiltins(tabs, i) ==
    IF i > Len(Builtins) THEN tabs
    ELSE DefineBuiltins(DefineBuiltin(tabs, i - 1, Builtins[i]), i + 1)

New ==
    [scopes |-> <<CompilationScope>>,
     scopeIndex |-> 0,
     constants |-> <<>>,
     symbolTable |-> DefineBuiltins(<<NewSymbolTable>>, 1),
     err |-> ""]

NewWithState(s, constants) == [New EXCEPT !.symbolTable = s, !.constants = constants]

currentInstructions(c) == c.scopes[c.scopeIndex + 1].instructions

addInstruction(c, ins) ==
    [c EXCEPT !.scopes[c.scopeIndex + 1].instructions = currentInstructions(c) \o ins]

setLastInstruction(c, op, pos) ==
    [c EXCEPT !.scopes[c.scopeIndex + 1].previousInstruction = c.scopes[c.scopeIndex + 1].lastInstruction,
              !.scopes[c.scopeIndex + 1].lastInstruction = EmittedInstruction(op, pos)]

emit(c, op, operand) ==
    setLastInstruction(addInstruction(c, Make(op, operand)), op, Len(currentInstructions(c)))

\* the position emit returns for the next instruction
emitPos(c) == Len(currentInstructions(c))

addConstant(c, obj) == [c EXCEPT !.constants = Append(c.constants, obj)]

\* the index addConstant returns for the next constant
addConstantIdx(c) == Len(c.constants)

lastInstructionIs(c, op) ==
    IF Len(currentInstructions(c)) = 0 THEN FALSE
    ELSE c.scopes[c.scopeIndex + 1].lastInstruction.Opcode = op

removeLastPop(c) ==
    LET sc == c.scopes[c.scopeIndex + 1]
    IN  [c EXCEPT !.scopes[c.scopeIndex + 1].instructions =
                        SubSeq(sc.instructions, 1, sc.lastInstruction.Position),
                  !.scopes[c.scopeIndex + 1].lastInstruction = sc.previousInstruction]

replaceInstruction(c, pos, newInstruction) ==
    [c EXCEPT !.scopes[c.scopeIndex + 1].instructions =
        [i \in 1..Len(@) |-> IF i > pos /\ i <= pos + Len(newInstruction)
                             THEN newInstruction[i - pos] ELSE @[i]]]

changeOperand(c, opPos, operand) ==
    replaceInstruction(c, opPos, Make(currentInstructions(c)[opPos + 1], operand))

enterScope(c) ==
    [c EXCEPT !.scopes = Append(c.scopes, CompilationScope),
              !.scopeIndex = c.scopeIndex + 1,
              !.symbolTable = NewEnclosedSymbolTable(c.symbolTable)]

\* leaveScope that pops the scope but keeps the enclosed table current
leaveScope_KeepTable(c) ==
    [c EXCEPT !.scopes = SubSeq(c.scopes, 1, Len(c.scopes) - 1),
              !.scopeIndex = c.scopeIndex - 1]

\* the compiler after leaveScope; leaveScope returns currentInstructions(c)
leaveScope(c) ==
    [c EXCEPT !.scopes = SubSeq(c.scopes, 1, Len(c.scopes) - 1),
              !.scopeIndex = c.scopeIndex - 1,
              !.symbolTable = SubSeq(c.symbolTable, 1, Len(c.symbolTable) - 1)]

replaceLastPopWithReturn(c) ==
    LET lastPos == c.scopes[c.scopeIndex + 1].lastInstruction.Position
        c1 == replaceInstruction(c, lastPos, Make(OpReturnValue, 0))
    IN  [c1 EXCEPT !.scopes[c.scopeIndex + 1].lastInstruction.Opcode = OpReturnValue]

loadSymbol_BuiltinAsGlobal(c, s) ==
    IF s.Scope = GlobalScope THEN emit(c, OpGetGlobal, s.Index)
    ELSE IF s.Scope = LocalScope THEN emit(c, OpGetLocal, s.Index)
    ELSE IF s.Scope = BuiltinScope THEN emit(c, OpGetGlobal, s.Index)
    ELSE c

loadSymbol(c, s) ==
    IF s.Scope = GlobalScope THEN emit(c, OpGetGlobal, s.Index)
    ELSE IF s.Scope = LocalScope THEN emit(c, OpGetLocal, s.Index)
    ELSE IF s.Scope = BuiltinScope THEN emit(c, OpGetBuiltin, s.Index)
    ELSE c

Fail(c, msg) == [c EXCEPT !.err = msg]

\* Go's nil object
GoNil == [t |-> "nil"]

\* c.emit(code.OpConstant, c.addConstant(obj))
emitConstant(c, obj) == emit(addConstant(c, obj), OpConstant, addConstantIdx(c))

\* the opcode of an infix operator other than "<"; -1 for an unknown operator
InfixOpcode(operator) ==
    CASE operator = "+" -> OpAdd
      [] operator = "-" -> OpSub
      [] operator = "*" -> OpMul
      [] operator = "/" -> OpDiv
      [] operator = ">" -> OpGreaterThan
      [] operator = "==" -> OpEqual
      [] operator = "!=" -> OpNotEqual
      [] OTHER -> -1

\* the default registered for a struct attribute, by the node of its value
AttributeDefault(attr) ==
    CASE attr.Value.kind = "IntegerLiteral" -> Integer(0)
      [] attr.Value.kind = "Boolean" -> Boolean(FALSE)
      [] attr.Value.kind = "StringLiteral" -> String("")
      [] attr.Value.kind = "ArrayStatement" ->
            (CASE attr.Type = "int" -> Array(<<Integer(0)>>)
               [] attr.Type = "bool" -> Array(<<Boolean(FALSE)>>)
               [] attr.Type = "float" -> Array(<<Float(0)>>)
               [] attr.Type = "string" -> Array(<<String("")>>)
               [] OTHER -> Array(<<Null>>))
      [] OTHER -> GoNil

\* the node compiled for the implicit return of a function; NoNode for an unknown type
DefaultReturnNode_AlwaysInt(retType, isArray) ==
    IF isArray THEN ArrayStatement("", <<IntegerLiteral(0)>>) ELSE IntegerLiteral(0)

DefaultReturnNode(retType, isArray) ==
    LET lit == CASE retType = "int" -> IntegerLiteral(0)
                 [] retType = "bool" -> BooleanLiteral(FALSE)
                 [] retType = "float" -> FloatLiteral(0)
                 [] OTHER -> NoNode
    IN  IF lit = NoNode THEN NoNode
        ELSE IF isArray THEN ArrayStatement("", <<lit>>)
        ELSE lit

\* finishFunctionBody without the final Return
finishFunctionBody_NoReturn(c) ==
    IF lastInstructionIs(c, OpPop) THEN replaceLastPopWithReturn(c) ELSE c

\* after the body of a function: a trailing Pop becomes ReturnValue, and a
\* buffer that still does not end with ReturnValue gets a Return
finishFunctionBody(c) ==
    LET c1 == IF lastInstructionIs(c, OpPop) THEN replaceLastPopWithReturn(c) ELSE c
    IN  IF ~lastInstructionIs(c1, OpReturnValue) THEN emit(c1, OpReturn, 0) ELSE c1

\* the end of the FunctionStatement case: leave the scope, add the function
\* to the constants, define its name in the enclosing table
defineFunction_NoParameters(c, node) ==
    LET numLocals == c.symbolTable[Len(c.symbolTable)].numDefinitions
        instructions == currentInstructions(c)
        c1 == leaveScope(c)
        c2 == emitConstant(c1, CompiledFunction(instructions, numLocals, 0))
        d == Define(c2.symbolTable, node.FnName)
    IN  emit([c2 EXCEPT !.symbolTable = d.tabs], OpSetGlobal, d.symbol.Index)

defineFunction(c, node) ==
    LET numLocals == c.symbolTable[Len(c.symbolTable)].numDefinitions
        instructions == currentInstructions(c)
        c1 == leaveScope(c)
        c2 == emitConstant(c1, CompiledFunction(instructions, numLocals, Len(node.Parameters)))
        d == Define(c2.symbolTable, node.FnName)
    IN  emit([c2 EXCEPT !.symbolTable = d.tabs], OpSetGlobal, d.symbol.Index)

RECURSIVE DefineParameters(_, _, _)
DefineParameters(c, params, i) ==
    IF i > Len(params) THEN c
    ELSE DefineParameters([c EXCEPT !.symbolTable = Define(c.symbolTable, params[i]).tabs],
                          params, i + 1)

\* patchJumpNotTruthy that targets the Jump instead of the offset after it
patchJumpNotTruthy_OnJump(c, jumpNotTruthyPos) ==
    changeOperand(c, jumpNotTruthyPos, Len(currentInstructions(c)) - 3)

\* patch the JumpNotTruthy of an if-expression to the offset after the Jump
patchJumpNotTruthy(c, jumpNotTruthyPos) ==
    changeOperand(c, jumpNotTruthyPos, Len(currentInstructions(c)))

\* patchJump that targets the start of the buffer
patchJump_ToStart(c, jumpPos) == changeOperand(c, jumpPos, 0)

\* patch the Jump of an if-expression to the offset after the alternative
patchJump(c, jumpPos) ==
    changeOperand(c, jumpPos, Len(currentInstructions(c)))

\* the declaration of a global, const or local block: define the name and store
defineAndStore_Global(c, name, op) ==
    LET d == Define(c.symbolTable, name)
    IN  emit([c EXCEPT !.symbolTable = d.tabs], OpSetGlobal, d.symbol.Index)

defineAndStore(c, name, op) ==
    LET d == Define(c.symbolTable, name)
    IN  emit([c EXCEPT !.symbolTable = d.tabs], op, d.symbol.Index)

\* the nodes whose case of Compile is empty (TODO)
UncompiledKinds ==
    {"ForStatement", "WhileStatement", "IncrementStatement", "DecrementStatement",
     "PlusEqualsStatement", "MinusEqualsStatement", "MultEqualsStatement"}

\* a function whose name is defined before its body is compiled
enterFunction_NameFirst(c, node) ==
    DefineParameters(enterScope([c EXCEPT !.symbolTable = Define(c.symbolTable, node.FnName).tabs]),
                     node.Parameters, 1)

\* the start of the FunctionStatement case: enter a scope, define the parameters
enterFunction(c, node) == DefineParameters(enterScope(c), node.Parameters, 1)

\* a const block that redeclares whatever resolves
alreadyDefined_Never(c, name, isConst) == FALSE

\* the check of a const block: _, ok := c.symbolTable.Resolve(s.Name.Value)
alreadyDefined(c, name, isConst) == isConst /\ Resolve(c.symbolTable, name).ok

RECURSIVE Compile(_, _), CompileList(_, _, _), CompileVarBlock(_, _, _, _, _),
          CompileAttributes(_, _, _), CompileBody(_, _, _, _)

\* for _, s := range nodes { err := c.Compile(s); if err != nil { return err } }
CompileList(c, nodes, i) ==
    IF i > Len(nodes) THEN c
    ELSE LET c1 == Compile(c, nodes[i])
         IN  IF c1.err # "" THEN c1 ELSE CompileList(c1, nodes, i + 1)

\* the loop of a GlobalStatement (op = OpSetGlobal), ConstStatement
\* (op = OpSetGlobal, isConst) or LocalStatement (op = OpSetLocal)
CompileVarBlock(c, stmts, i, op, isConst) ==
    IF i > Len(stmts) THEN c
    ELSE LET stmt == stmts[i]
             c1 == Compile(c, stmt)
         IN  IF c1.err # "" THEN c1
             ELSE IF stmt.kind \notin {"VariableStatement", "ArrayStatement"}
             THEN Fail(c1, "block must contain only variable statements")
             ELSE IF alreadyDefined(c1, stmt.VarName, isConst)
             THEN Fail(c1, "variable already defined")
             ELSE CompileVarBlock(defineAndStore(c1, stmt.VarName, op), stmts, i + 1, op, isConst)

\* the attribute loop of a Struct
CompileAttributes(c, node, i) ==
    IF i > Len(node.Attributes) THEN c
    ELSE LET attr == node.Attributes[i]
             c1 == Compile(c, attr.Value)
         IN  IF c1.err # "" THEN c1
             ELSE CompileAttributes(
                    [c1 EXCEPT !.symbolTable =
                        DefineAttribute(c1.symbolTable, node.StructName, attr.AttrName,
                                        AttributeDefault(attr))],
                    node, i + 1)

\* the statement loop of a FunctionStatement: [c, hasReturnValue]
\* a return assignment whose value is compiled but that emits no ReturnValue
emitReturnValue_Nothing(c) == c

\* the value of a return assignment has been compiled: emit a ReturnValue
emitReturnValue(c) == emit(c, OpReturnValue, 0)

RECURSIVE CompileBody_AssignmentsCompiled(_, _, _, _)
CompileBody_AssignmentsCompiled(c, node, i, hasReturnValue) ==
    IF i > Len(node.Body) THEN [c |-> c, hasReturnValue |-> hasReturnValue]
    ELSE LET stmt == node.Body[i]
         IN  IF stmt.kind = "AssignmentStatement"
             THEN LET c1 == Compile(c, stmt.Value)
                      isReturn == stmt.Left.kind = "Identifier" /\ stmt.Left.Name = node.FnName
                  IN  IF c1.err # "" THEN [c |-> c1, hasReturnValue |-> hasReturnValue]
                      ELSE CompileBody_AssignmentsCompiled(
                               IF isReturn THEN emitReturnValue(c1) ELSE emit(c1, OpPop, 0),
                               node, i + 1, hasReturnValue \/ isReturn)
             ELSE LET c1 == Compile(c, stmt)
                  IN  IF c1.err # "" THEN [c |-> c1, hasReturnValue |-> hasReturnValue]
                      ELSE CompileBody_AssignmentsCompiled(c1, node, i + 1, hasReturnValue)

CompileBody(c, node, i, hasReturnValue) ==
    IF i > Len(node.Body) THEN [c |-> c, hasReturnValue |-> hasReturnValue]
    ELSE LET stmt == node.Body[i]
         IN  IF stmt.kind = "AssignmentStatement"
             THEN IF stmt.Left.kind = "Identifier" /\ stmt.Left.Name = node.FnName
                  THEN LET c1 == Compile(c, stmt.Value)
                       IN  IF c1.err # "" THEN [c |-> c1, hasReturnValue |-> hasReturnValue]
                           ELSE CompileBody(emitReturnValue(c1), node, i + 1, TRUE)
                  ELSE CompileBody(c, node, i + 1, hasReturnValue)
             ELSE LET c1 == Compile(c, stmt)
                  IN  IF c1.err # "" THEN [c |-> c1, hasReturnValue |-> hasReturnValue]
                      ELSE CompileBody(c1, node, i + 1, hasReturnValue)

Compile(c, node) ==
    CASE node.kind = "ExpressionStatement" ->
            LET c1 == Compile(c, node.Expression)
            IN  IF c1.err # "" THEN c1 ELSE emit(c1, OpPop, 0)
      [] node.kind = "BlockStatement" -> CompileList(c, node.Statements, 1)
      [] node.kind = "Identifier" ->
            LET r == Resolve(c.symbolTable, node.Name)
            IN  IF ~r.ok THEN Fail(c, "undefined variable") ELSE loadSymbol(c, r.symbol)
      [] node.kind = "InfixExpression" ->
            IF node.Operator = "<"
            THEN LET c1 == Compile(c, node.Right)
                     c2 == IF c1.err # "" THEN c1 ELSE Compile(c1, node.Left)
                 IN  IF c2.err # "" THEN c2 ELSE emit(c2, OpGreaterThan, 0)
            ELSE LET c1 == Compile(c, node.Left)
                     c2 == IF c1.err # "" THEN c1 ELSE Compile(c1, node.Right)
                 IN  IF c2.err # "" THEN c2
                     ELSE IF InfixOpcode(node.Operator) = -1 THEN Fail(c2, "unknown operator")
                     ELSE emit(c2, InfixOpcode(node.Operator), 0)
      [] node.kind = "PrefixExpression" ->
            LET c1 == Compile(c, node.Right)
            IN  IF c1.err # "" THEN c1
                ELSE IF node.Operator = "!" THEN emit(c1, OpBang, 0)
                ELSE IF node.Operator = "-" THEN emit(c1, OpMinus, 0)
                ELSE Fail(c1, "unknown operator")
      [] node.kind = "IfExpression" ->
            LET c1 == Compile(c, node.Condition)
                jumpNotTruthyPos == emitPos(c1)
                c2 == emit(c1, OpJumpNotTruthy, 9999)
                c3 == Compile(c2, node.Consequence)
                c4 == IF lastInstructionIs(c3, OpPop) THEN removeLastPop(c3) ELSE c3
                jumpPos == emitPos(c4)
                c5 == patchJumpNotTruthy(emit(c4, OpJump, 9999), jumpNotTruthyPos)
                c6 == IF node.Alternative = NoNode THEN emit(c5, OpNull, 0)
                      ELSE Compile(c5, node.Alternative)
                c7 == IF node.Alternative # NoNode /\ lastInstructionIs(c6, OpPop)
                      THEN removeLastPop(c6) ELSE c6
            IN  IF c1.err # "" THEN c1
                ELSE IF c3.err # "" THEN c3
                ELSE IF c6.err # "" THEN c6
                ELSE patchJump(c7, jumpPos)
      [] node.kind = "GlobalStatement" -> CompileVarBlock(c, node.Body, 1, OpSetGlobal, FALSE)
      [] node.kind = "ConstStatement" -> CompileVarBlock(c, node.Body, 1, OpSetGlobal, TRUE)
      [] node.kind = "LocalStatement" -> CompileVarBlock(c, node.Body, 1, OpSetLocal, FALSE)
      [] node.kind = "StructsStatement" -> CompileList(c, node.Structs, 1)
      [] node.kind = "Struct" ->
            LET c1 == CompileAttributes(c, node, 1)
            IN  IF c1.err # "" THEN c1 ELSE emit(c1, OpStruct, Len(node.Attributes))
      [] node.kind = "AccessorExpression" ->
            LET c1 == Compile(c, node.Left)
            IN  IF c1.err # "" THEN c1 ELSE emit(c1, OpGetAttribute, 0)
      [] node.kind = "VariableStatement" ->
            LET c1 == Compile(c, node.Value)
                symb == ResolveStruct(c1.symbolTable, node.Type)
            IN  IF c1.err # "" THEN c1
                ELSE IF symb.ok THEN emitConstant(c1, Struct(symb.symbol.Atributes))
                ELSE c1
      [] node.kind = "IndexExpression" ->
            LET c1 == Compile(c, node.Left)
                c2 == IF c1.err # "" THEN c1 ELSE Compile(c1, node.Index)
            IN  IF c2.err # "" THEN c2 ELSE emit(c2, OpIndex, 0)
      [] node.kind = "FunctionStatement" ->
            LET c1 == enterFunction(c, node)
                b == CompileBody(c1, node, 1, FALSE)
                dflt == DefaultReturnNode(node.ReturnType, node.IsArray)
                c2 == IF b.hasReturnValue THEN b.c
                      ELSE IF dflt = NoNode THEN Fail(b.c, "unknown return type")
                      ELSE emit(Compile(b.c, dflt), OpReturnValue, 0)
            IN  IF b.c.err # "" THEN b.c
                ELSE IF c2.err # "" THEN c2
                ELSE defineFunction(finishFunctionBody(c2), node)
      [] node.kind = "CallExpression" ->
            LET c1 == Compile(c, node.Function)
                c2 == IF c1.err # "" THEN c1 ELSE CompileList(c1, node.Arguments, 1)
            IN  IF c2.err # "" THEN c2 ELSE emit(c2, OpCall, Len(node.Arguments))
      [] node.kind = "ArrayStatement" ->
            LET c1 == CompileList(c, node.Elements, 1)
            IN  IF c1.err # "" THEN c1 ELSE emit(c1, OpArray, Len(node.Elements))
      [] node.kind = "Boolean" ->
            IF node.BoolValue THEN emit(c, OpTrue, 0) ELSE emit(c, OpFalse, 0)
      [] node.kind = "StringLiteral" -> emitConstant(c, String(node.StrValue))
      [] node.kind = "FloatLiteral" -> emitConstant(c, Float(node.FloatValue))
      [] node.kind = "IntegerLiteral" -> emitConstant(c, Integer(node.IntValue))
      [] node.kind \in UncompiledKinds -> c
      [] OTHER -> c

\* case *ast.Program: the statements in order, stopping at the first error
CompileProgram(c, statements) == CompileList(c, statements, 1)

\* Compiler.Bytecode
Bytecode(c) == [Instructions |-> currentInstructions(c), Constants |-> c.constants]

(***************************************************************************)
(* vm: the stack machine (specification 4.1 and 4.5)                       *)
(*                                                                         *)
(* The stack is the sequence of the slots written so far: slot k of the    *)
(* machine (0-based) is stack[k + 1], and a slot never written is GoNil.   *)
(***************************************************************************)
StackSize == 2048

GlobalsSize == 65536

MaxFrames == 1024

NewFrame(fn, basePointer) == [fn |-> fn, ip |-> -1, basePointer |-> basePointer]

\* vm.New(bytecode) with a fresh globals store
NewVM(bytecode, globals) ==
    [constants |-> bytecode.Constants,
     stack |-> <<>>,
     sp |-> 0,
     globals |-> globals,
     frames |-> <<NewFrame(CompiledFunction(bytecode.Instructions, 0, 0), 0)>>,
     framesIndex |-> 1,
     err |-> ""]

currentFrame(m) == m.frames[m.framesIndex]

StackAt(m, k) == IF k >= 0 /\ k < Len(m.stack) THEN m.stack[k + 1] ELSE GoNil

StackPut(stack, k, o) ==
    [i \in 1..(IF k + 1 > Len(stack) THEN k + 1 ELSE Len(stack)) |->
        IF i = k + 1 THEN o ELSE IF i <= Len(stack) THEN stack[i] ELSE GoNil]

VmFail(m, msg) == [m EXCEPT !.err = msg]

push(m, o) ==
    IF m.sp >= StackSize THEN VmFail(m, "StackOverflow")
    ELSE [m EXCEPT !.stack = StackPut(m.stack, m.sp, o), !.sp = m.sp + 1]

\* the machine after pop; the popped value is StackAt(m, m.sp - 1)
pop(m) ==
    IF m.sp <= 0 THEN VmFail(m, "StackUnderflow") ELSE [m EXCEPT !.sp = m.sp - 1]

top(m) == StackAt(m, m.sp - 1)

LastPoppedStackElem(m) == StackAt(m, m.sp)

GlobalAt(m, k) == IF k \in DOMAIN m.globals THEN m.globals[k] ELSE GoNil

isTruthy(o) ==
    IF o.t = "BOOLEAN" THEN o.b
    ELSE IF o.t = "NULL" THEN FALSE
    ELSE TRUE

\* integer division truncating toward zero
TruncDiv(a, b) ==
    LET abs(x) == IF x < 0 THEN -x ELSE x
        q == abs(a) \div abs(b)
    IN  IF (a < 0) # (b < 0) THEN -q ELSE q

\* the result of a binary arithmetic opcode; GoNil stands for a failure
BinaryResult(op, left, right) ==
    IF left.t = "INTEGER" /\ right.t = "INTEGER"
    THEN CASE op = OpAdd -> Integer(left.i + right.i)
           [] op = OpSub -> Integer(left.i - right.i)
           [] op = OpMul -> Integer(left.i * right.i)
           [] op = OpDiv -> IF right.i = 0 THEN GoNil ELSE Integer(TruncDiv(left.i, right.i))
    ELSE IF left.t = "FLOAT" /\ right.t = "FLOAT"
    THEN CASE op = OpAdd -> Float(left.f + right.f)
           [] op = OpSub -> Float(left.f - right.f)
           [] op = OpMul -> Float(left.f * right.f)
           [] op = OpDiv -> IF right.f = 0 THEN GoNil ELSE Float(TruncDiv(left.f, right.f))
    ELSE IF left.t = "STRING" /\ right.t = "STRING" /\ op = OpAdd
    THEN String(left.s \o right.s)
    ELSE GoNil

BinaryError(op, left, right) ==
    IF op = OpDiv /\ ((left.t = "INTEGER" /\ right.t = "INTEGER" /\ right.i = 0)
                      \/ (left.t = "FLOAT" /\ right.t = "FLOAT" /\ right.f = 0))
    THEN "DivideByZero" ELSE "TypeMismatch"

\* the result of Equal, NotEqual, GreaterThan; GoNil stands for TypeMismatch
ComparisonResult(op, left, right) ==
    IF left.t # right.t THEN GoNil
    ELSE IF op = OpGreaterThan
    THEN (IF left.t = "INTEGER" THEN Boolean(left.i > right.i)
          ELSE IF left.t = "FLOAT" THEN Boolean(left.f > right.f)
          ELSE GoNil)
    ELSE IF left.t \in {"INTEGER", "FLOAT", "BOOLEAN", "STRING", "NULL"}
    THEN Boolean((left = right) = (op = OpEqual))
    ELSE GoNil

\* the machine with the ip of the current frame set
SetIp(m, ip) == [m EXCEPT !.frames[m.framesIndex].ip = ip]

\* the offset and the opcode of the instruction the next step executes
NextIp(m) == currentFrame(m).ip + 1

HasNext(m) == NextIp(m) < Len(currentFrame(m).fn.Instructions)

NextOp(m) == currentFrame(m).fn.Instructions[NextIp(m) + 1]

NextOperand(m) == OperandAt(currentFrame(m).fn.Instructions, NextIp(m))

\* the machine after the fetch of the next instruction: ip on its last byte
Fetched(m) == SetIp(m, NextIp(m) + OperandWidth(NextOp(m)))

ExecConstant(m) == push(Fetched(m), m.constants[NextOperand(m) + 1])

ExecPop(m) == pop(Fetched(m))

ExecBinary(m) ==
    LET right == StackAt(m, m.sp - 1)
        left == StackAt(m, m.sp - 2)
        r == BinaryResult(NextOp(m), left, right)
        m1 == pop(pop(Fetched(m)))
    IN  IF m1.err # "" THEN m1
        ELSE IF r = GoNil THEN VmFail(m1, BinaryError(NextOp(m), left, right))
        ELSE push(m1, r)

ExecLiteral(m) ==
    push(Fetched(m), IF NextOp(m) = OpTrue THEN Boolean(TRUE)
                     ELSE IF NextOp(m) = OpFalse THEN Boolean(FALSE) ELSE Null)

ExecComparison(m) ==
    LET right == StackAt(m, m.sp - 1)
        left == StackAt(m, m.sp - 2)
        r == ComparisonResult(NextOp(m), left, right)
        m1 == pop(pop(Fetched(m)))
    IN  IF m1.err # "" THEN m1
        ELSE IF r = GoNil THEN VmFail(m1, "TypeMismatch")
        ELSE push(m1, r)

ExecUnary(m) ==
    LET operand == StackAt(m, m.sp - 1)
        m1 == pop(Fetched(m))
    IN  IF m1.err # "" THEN m1
        ELSE IF NextOp(m) = OpBang THEN push(m1, Boolean(~isTruthy(operand)))
        ELSE IF operand.t = "INTEGER" THEN push(m1, Integer(-operand.i))
        ELSE IF operand.t = "FLOAT" THEN push(m1, Float(-operand.f))
        ELSE VmFail(m1, "TypeMismatch")

ExecJump(m) == SetIp(m, NextOperand(m) - 1)

ExecJumpNotTruthy(m) ==
    LET condition == StackAt(m, m.sp - 1)
        m1 == pop(Fetched(m))
    IN  IF m1.err # "" THEN m1
        ELSE IF ~isTruthy(condition) THEN SetIp(m1, NextOperand(m) - 1)
        ELSE m1

ExecSetGlobal(m) ==
    LET m1 == pop(Fetched(m))
    IN  IF m1.err # "" THEN m1
        ELSE [m1 EXCEPT !.globals = MapPut(m.globals, NextOperand(m), StackAt(m, m.sp - 1))]

ExecGetGlobal(m) == push(Fetched(m), GlobalAt(m, NextOperand(m)))

ExecSetLocal(m) ==
    LET m1 == pop(Fetched(m))
    IN  IF m1.err # "" THEN m1
        ELSE [m1 EXCEPT !.stack = StackPut(m.stack, currentFrame(m).basePointer + NextOperand(m),
                                           StackAt(m, m.sp - 1))]

ExecGetLocal(m) ==
    push(Fetched(m), StackAt(m, currentFrame(m).basePointer + NextOperand(m)))

ExecGetBuiltin(m) == push(Fetched(m), Builtin(NextOperand(m)))

ExecArray_Reversed(m) ==
    LET n == NextOperand(m)
        elements == [i \in 1..n |-> StackAt(m, m.sp - i)]
    IN  IF m.sp < n THEN VmFail(Fetched(m), "StackUnderflow")
        ELSE push([Fetched(m) EXCEPT !.sp = m.sp - n], Array(elements))

ExecArray(m) ==
    LET n == NextOperand(m)
        elements == [i \in 1..n |-> StackAt(m, m.sp - n + i - 1)]
    IN  IF m.sp < n THEN VmFail(Fetched(m), "StackUnderflow")
        ELSE push([Fetched(m) EXCEPT !.sp = m.sp - n], Array(elements))

\* the attributes of the Struct built by the opcode are the popped values by position
ExecStruct(m) ==
    LET n == NextOperand(m)
        values == [i \in 1..n |-> StackAt(m, m.sp - n + i - 1)]
    IN  IF m.sp < n THEN VmFail(Fetched(m), "StackUnderflow")
        ELSE push([Fetched(m) EXCEPT !.sp = m.sp - n], Struct(values))

ExecGetAttribute(m) ==
    LET target == StackAt(m, m.sp - 1)
        name == m.constants[NextOperand(m) + 1]
        m1 == pop(Fetched(m))
    IN  IF m1.err # "" THEN m1
        ELSE IF target.t # "STRUCT" THEN VmFail(m1, "TypeMismatch")
        ELSE IF name.t = "STRING" /\ name.s \in DOMAIN target.Attributes
        THEN push(m1, target.Attributes[name.s])
        ELSE push(m1, Null)

ExecIndex(m) ==
    LET index == StackAt(m, m.sp - 1)
        left == StackAt(m, m.sp - 2)
        m1 == pop(pop(Fetched(m)))
    IN  IF m1.err # "" THEN m1
        ELSE IF left.t = "ARRAY" /\ index.t = "INTEGER"
        THEN (IF index.i >= 0 /\ index.i < Len(left.Elements)
              THEN push(m1, left.Elements[index.i + 1]) ELSE push(m1, Null))
        ELSE VmFail(m1, "TypeMismatch")

(***************************************************************************)
(* object: the built-in functions.  A built-in takes the arguments and     *)
(* the standard input and gives <<result, arguments after the call>>: an   *)
(* Array or a Struct argument is shared with the caller, so what the       *)
(* built-in stores in it is seen in the argument afterwards.  The result   *)
(* is a value, an Error, GoNil for a nil return, or GoPanic when the       *)
(* function panics (a method called on a nil Object).                      *)
(* stdin is [lines, keys]: the lines to read, each a sequence of code      *)
(* points, and the order in which range visits the keys of a map.          *)
(***************************************************************************)
Error(msg) == [t |-> "ERROR", Message |-> msg]

GoPanic == [t |-> "PANIC"]

Outcome(result, args) == [result |-> result, args |-> args]

NoInput == [lines |-> <<>>, keys |-> <<>>]

\* reader.ReadString('\n') on the k-th read: "" at end of input
LineAt(stdin, k) == IF k \in 1..Len(stdin.lines) THEN stdin.lines[k] ELSE <<>>

IsSpace(ch) == ch \in {9, 10, 13, 32}

RECURSIVE TrimLeft(_)
TrimLeft(cs) == IF cs # <<>> /\ IsSpace(Head(cs)) THEN TrimLeft(Tail(cs)) ELSE cs

RECURSIVE TrimRight(_)
TrimRight(cs) ==
    IF cs # <<>> /\ IsSpace(cs[Len(cs)]) THEN TrimRight(SubSeq(cs, 1, Len(cs) - 1)) ELSE cs

RECURSIVE DigitsValue(_, _)
DigitsValue(cs, acc) ==
    IF cs = <<>> THEN acc ELSE DigitsValue(Tail(cs), acc * 10 + (Head(cs) - 48))

\* parseInput: strconv.ParseInt of the trimmed line, 0 when it does not parse
parseInput(line) ==
    LET trimmed == TrimRight(TrimLeft(line))
        signed == trimmed # <<>> /\ trimmed[1] \in {43, 45}
        digits == IF signed THEN Tail(trimmed) ELSE trimmed
    IN  IF digits = <<>> \/ \E k \in 1..Len(digits) : digits[k] \notin 48..57 THEN 0
        ELSE IF trimmed[1] = 45 THEN 0 - DigitsValue(digits, 0) ELSE DigitsValue(digits, 0)

\* float64 of an Integer or a Float argument
NumberOf(v) == IF v.t = "INTEGER" THEN v.i ELSE v.f

RECURSIVE IntPow(_, _)
IntPow(b, e) == IF e = 0 THEN 1 ELSE b * IntPow(b, e - 1)

\* math.Pow on whole numbers: a quotient for a negative exponent
Pow(b, e) ==
    IF e >= 0 THEN IntPow(b, e)
    ELSE IF b = 0 THEN "+Inf" ELSE [num |-> 1, den |-> IntPow(b, 0 - e)]

\* math.Sqrt of a whole number that is not negative
Sqrt(n) == IF \E r \in 0..n : r * r = n THEN CHOOSE r \in 0..n : r * r = n ELSE [sqrt |-> n]

BuiltinLen(args, stdin) ==
    IF Len(args) # 1 THEN Outcome(Error("wrong number of arguments"), args)
    ELSE IF args[1].t = "ARRAY" THEN Outcome(Integer(Len(args[1].Elements)), args)
    ELSE IF args[1].t = "STRING" THEN Outcome(Integer(Len(args[1].s)), args)
    ELSE IF args[1] = GoNil THEN Outcome(GoPanic, args)
    ELSE Outcome(Error("argument to len not supported"), args)

BuiltinPow(args, stdin) ==
    IF Len(args) # 2 THEN Outcome(Error("wrong number of arguments for pow"), args)
    ELSE IF args[1] = GoNil THEN Outcome(GoPanic, args)
    ELSE IF args[1].t \notin {"INTEGER", "FLOAT"}
    THEN Outcome(Error("first argument to pow must be INTEGER or FLOAT"), args)
    ELSE IF args[2] = GoNil THEN Outcome(GoPanic, args)
    ELSE IF args[2].t \notin {"INTEGER", "FLOAT"}
    THEN Outcome(Error("second argument to pow must be INTEGER or FLOAT"), args)
    ELSE Outcome(Float(Pow(NumberOf(args[1]), NumberOf(args[2]))), args)

BuiltinSquareRoot(args, stdin) ==
    IF Len(args) # 1 THEN Outcome(Error("wrong number of arguments for square_root"), args)
    ELSE IF args[1] = GoNil THEN Outcome(GoPanic, args)
    ELSE IF args[1].t \notin {"INTEGER", "FLOAT"}
    THEN Outcome(Error("argument to square_root must be INTEGER or FLOAT"), args)
    ELSE IF NumberOf(args[1]) < 0
    THEN Outcome(Error("argument to square_root must be non-negative"), args)
    ELSE Outcome(Float(Sqrt(NumberOf(args[1]))), args)

BuiltinGen(args, stdin) ==
    IF Len(args) # 2 THEN Outcome(Error("wrong number of arguments for gen"), args)
    ELSE IF args[1] = GoNil \/ args[2] = GoNil THEN Outcome(GoPanic, args)
    ELSE IF args[1].t # "INTEGER" \/ args[2].t # "INTEGER"
    THEN Outcome(Error("arguments to gen must be INTEGERs"), args)
    ELSE Outcome(Array([k \in 1..(args[2].i - args[1].i + 1) |-> Integer(args[1].i + k - 1)]), args)

\* el.Inspect() on every value of a sequence or of a map panics on a nil one
InspectsNil(values) == \E k \in DOMAIN values : values[k] = GoNil

BuiltinWrite(args, stdin) ==
    IF InspectsNil(args) THEN Outcome(GoPanic, args) ELSE Outcome(GoNil, args)

BuiltinWriteAll(args, stdin) ==
    IF Len(args) # 1 THEN Outcome(Error("wrong number of arguments for write_all"), args)
    ELSE IF args[1].t = "ARRAY"
    THEN Outcome(IF InspectsNil(args[1].Elements) THEN GoPanic ELSE GoNil, args)
    ELSE IF args[1].t = "STRUCT"
    THEN Outcome(IF InspectsNil(args[1].Attributes) THEN GoPanic ELSE GoNil, args)
    ELSE IF args[1] = GoNil THEN Outcome(GoPanic, args)
    ELSE Outcome(Error("argument to write_all must be ARRAY or STRUCT"), args)

\* the first element that is not an Integer ends the loop: a nil one by a panic
BuiltinWriteString(args, stdin) ==
    IF Len(args) # 1 THEN Outcome(Error("wrong number of arguments for write_string"), args)
    ELSE IF args[1].t = "ARRAY"
    THEN LET es == args[1].Elements
             bad == {k \in 1..Len(es) : es[k].t # "INTEGER"}
             first == CHOOSE k \in bad : \A k2 \in bad : k <= k2
         IN  IF bad = {} THEN Outcome(GoNil, args)
             ELSE IF es[first] = GoNil THEN Outcome(GoPanic, args)
             ELSE Outcome(Error("write_string array elements must be INTEGERS"), args)
    ELSE IF args[1] = GoNil THEN Outcome(GoPanic, args)
    ELSE Outcome(Error("argument to write_string must be ARRAY"), args)

BuiltinRead(args, stdin) == Outcome(String(LineAt(stdin, 1)), args)

\* position of key in the order range visits the keys
KeyPosition(stdin, key) ==
    IF \E k \in 1..Len(stdin.keys) : stdin.keys[k] = key
    THEN CHOOSE k \in 1..Len(stdin.keys) : stdin.keys[k] = key
    ELSE 0

BuiltinReadAll(args, stdin) ==
    IF Len(args) # 1 THEN Outcome(Error("wrong number of arguments for read_all"), args)
    ELSE IF args[1].t = "ARRAY"
    THEN Outcome(GoNil,
                 <<Array([k \in 1..Len(args[1].Elements) |-> Integer(parseInput(LineAt(stdin, k)))])>>)
    ELSE IF args[1].t = "STRUCT"
    THEN Outcome(GoNil,
                 <<Struct([key \in DOMAIN args[1].Attributes |->
                              Integer(parseInput(LineAt(stdin, KeyPosition(stdin, key))))])>>)
    ELSE IF args[1] = GoNil THEN Outcome(GoPanic, args)
    ELSE Outcome(Error("argument to read_all must be ARRAY or STRUCT"), args)

\* the number of bytes of the UTF-8 encoding of the code point ch
Utf8Len(ch) == IF ch < 128 THEN 1 ELSE IF ch < 2048 THEN 2 ELSE IF ch < 65536 THEN 3 ELSE 4

\* the byte offset at which the k-th code point of input starts (k from 1), and
\* with k = Len(input) + 1 the length of input in bytes
RECURSIVE ByteOffset(_, _)
ByteOffset(input, k) ==
    IF k <= 1 THEN 0 ELSE ByteOffset(input, k - 1) + Utf8Len(input[k - 1])

\* for i, ch := range input: i is the byte offset of ch; the second loop starts
\* at len(input), the length in bytes; a position neither loop visits keeps
\* its element
BuiltinReadString(args, stdin) ==
    IF Len(args) # 1 THEN Outcome(Error("wrong number of arguments for read_string"), args)
    ELSE IF args[1].t = "ARRAY"
    THEN LET line == LineAt(stdin, 1)
             input == IF line # <<>> /\ line[Len(line)] = 10
                      THEN SubSeq(line, 1, Len(line) - 1) ELSE line
             starts(p) == {k \in 1..Len(input) : ByteOffset(input, k) = p}
         IN  Outcome(GoNil,
                     <<Array([p \in 1..Len(args[1].Elements) |->
                                 IF starts(p - 1) # {}
                                 THEN Integer(input[CHOOSE k \in starts(p - 1) : TRUE])
                                 ELSE IF p - 1 >= ByteOffset(input, Len(input) + 1)
                                 THEN Integer(0)
                                 ELSE args[1].Elements[p]])>>)
    ELSE IF args[1] = GoNil THEN Outcome(GoPanic, args)
    ELSE Outcome(Error("argument to read_string must be ARRAY"), args)

\* Builtins[k].Builtin.Fn(args...), k counted from 0
BuiltinFn(k, args, stdin) ==
    CASE Builtins[k + 1] = "len" -> BuiltinLen(args, stdin)
      [] Builtins[k + 1] = "pow" -> BuiltinPow(args, stdin)
      [] Builtins[k + 1] = "square_root" -> BuiltinSquareRoot(args, stdin)
      [] Builtins[k + 1] = "gen" -> BuiltinGen(args, stdin)
      [] Builtins[k + 1] = "write" -> BuiltinWrite(args, stdin)
      [] Builtins[k + 1] = "write_all" -> BuiltinWriteAll(args, stdin)
      [] Builtins[k + 1] = "write_string" -> BuiltinWriteString(args, stdin)
      [] Builtins[k + 1] = "read" -> BuiltinRead(args, stdin)
      [] Builtins[k + 1] = "read_all" -> BuiltinReadAll(args, stdin)
      [] Builtins[k + 1] = "read_string" -> BuiltinReadString(args, stdin)

\* Call N on a Builtin: the arguments are popped and passed, an Error ends the
\* run, a nil result is pushed as Null; the standard input is at its end
callBuiltin(m, callee, n) ==
    LET args == [k \in 1..n |-> StackAt(m, m.sp - n + k - 1)]
        r == BuiltinFn(callee.k, args, NoInput).result
        m1 == [Fetched(m) EXCEPT !.sp = m.sp - n - 1]
    IN  IF r = GoPanic THEN VmFail(m1, "panic")
        ELSE IF r.t = "ERROR" THEN VmFail(m1, "BuiltinError")
        ELSE IF r = GoNil THEN push(m1, Null)
        ELSE push(m1, r)

\* Call N on a compiled function, a Builtin, or a value that cannot be called
ExecCall(m) ==
    LET n == NextOperand(m)
        callee == StackAt(m, m.sp - 1 - n)
        m1 == Fetched(m)
    IN  IF callee.t = "BUILTIN" THEN callBuiltin(m, callee, n)
        ELSE IF callee.t # "COMPILED_FUNCTION" THEN VmFail(m1, "NonCallable")
        ELSE IF n # callee.NumParameters THEN VmFail(m1, "ArityMismatch")
        ELSE IF m.framesIndex >= MaxFrames THEN VmFail(m1, "FrameOverflow")
        ELSE [m1 EXCEPT !.frames = Append(SubSeq(m1.frames, 1, m1.framesIndex),
                                          NewFrame(callee, m.sp - n)),
                        !.framesIndex = m.framesIndex + 1,
                        !.sp = m.sp - n + callee.NumLocals]

\* the machine with the current frame popped and sp on the slot of the callee
PopFrame(m) ==
    [m EXCEPT !.frames = SubSeq(m.frames, 1, m.framesIndex - 1),
              !.framesIndex = m.framesIndex - 1,
              !.sp = currentFrame(m).basePointer - 1]

ExecReturnValue(m) ==
    LET returnValue == StackAt(m, m.sp - 1)
        m1 == pop(Fetched(m))
    IN  IF m1.err # "" THEN m1
        ELSE IF m.framesIndex <= 1 THEN VmFail(m1, "FrameUnderflow")
        ELSE push(PopFrame(m1), returnValue)

ExecReturn(m) ==
    IF m.framesIndex <= 1 THEN VmFail(Fetched(m), "FrameUnderflow")
    ELSE push(PopFrame(Fetched(m)), Null)

(***************************************************************************)
(* Programs: the top-level statements the parser hands to the compiler     *)
(***************************************************************************)
I(n) == IntegerLiteral(n)

Id(name) == Identifier(name)

Es(e) == ExpressionStatement(e)

Blk(e) == BlockStatement(<<Es(e)>>)

IntVar(name, value) == VariableStatement("int", name, value)

Fn(name, params, retType, body) == FunctionStatement(name, params, retType, FALSE, body)

Ret(name, value) == AssignmentStatement(Id(name), value)

CallOf(name, args) == CallExpression(Id(name), args)

\* definitions: global blocks, functions, struct types, top-level declarations
Defs ==
    << GlobalStatement(<<IntVar("g", I(50))>>),
       GlobalStatement(<<ArrayStatement("v", <<I(1), I(2), I(3)>>)>>),
       Fn("one", <<>>, "int", <<Ret("one", I(1))>>),
       Fn("noRet", <<>>, "int", <<>>),
       Fn("noRetB", <<>>, "bool", <<>>),
       Fn("noRetF", <<>>, "float", <<>>),
       FunctionStatement("noRetA", <<>>, "int", TRUE, <<>>),
       FunctionStatement("noRetBA", <<>>, "bool", TRUE, <<>>),
       FunctionStatement("noRetFA", <<>>, "float", TRUE, <<>>),
       Fn("noRetS", <<>>, "string", <<>>),
       Fn("late", <<>>, "int", <<Es(InfixExpression(I(5), "+", I(10)))>>),
       Fn("id", <<"a">>, "int", <<Ret("id", Id("a"))>>),
       Fn("sub", <<"a", "b">>, "int",
          <<LocalStatement(<<IntVar("c", I(1)), IntVar("d", I(2))>>),
            Ret("sub", InfixExpression(InfixExpression(Id("a"), "-", Id("b")), "-", Id("c")))>>),
       Fn("minusOne", <<>>, "int",
          <<LocalStatement(<<IntVar("num", I(1))>>),
            Ret("minusOne", InfixExpression(Id("g"), "-", Id("num")))>>),
       Fn("early", <<>>, "int", <<Ret("early", I(1)), Es(I(2)), Ret("early", I(3))>>),
       Fn("tail", <<>>, "int", <<Ret("tail", I(4)), LocalStatement(<<IntVar("z", I(9))>>)>>),
       Fn("cond", <<"a">>, "int",
          <<Es(IfExpression(InfixExpression(Id("a"), ">", I(1)), Blk(I(7)), Blk(I(8)))),
            Ret("cond", IfExpression(InfixExpression(Id("a"), ">", I(1)), Blk(I(10)), Blk(I(20)))),
            Es(IfExpression(BooleanLiteral(TRUE), Blk(I(30)), NoNode))>>),
       Fn("under", <<>>, "int",
          <<Es(IfExpression(BooleanLiteral(TRUE), BlockStatement(<<>>), NoNode)),
            Es(IfExpression(BooleanLiteral(TRUE), BlockStatement(<<>>), NoNode)),
            Ret("under", I(5))>>),
       Fn("shadow", <<"g">>, "int",
          <<LocalStatement(<<IntVar("one", I(8))>>),
            Ret("shadow", InfixExpression(Id("g"), "+", Id("one")))>>),
       StructsStatement(<<StructNode("point", <<Attribute("x", "int", FALSE, I(0))>>)>>),
       IntVar("t", I(5)),
       IntVar("u", IfExpression(BooleanLiteral(TRUE), Blk(I(1)), NoNode)) >>

\* uses: expression statements
Uses ==
    << Es(I(5)),
       Es(InfixExpression(I(1), "<", I(2))),
       Es(IfExpression(BooleanLiteral(TRUE), Blk(I(10)), NoNode)),
       Es(IfExpression(BooleanLiteral(FALSE), Blk(I(10)), NoNode)),
       Es(IfExpression(InfixExpression(I(1), ">", I(2)), Blk(I(10)), Blk(I(20)))),
       Es(IfExpression(InfixExpression(I(1), "<", I(2)), Blk(I(10)), Blk(I(20)))),
       Es(IfExpression(I(1), Blk(I(10)), NoNode)),
       Es(IfExpression(IfExpression(BooleanLiteral(FALSE), Blk(I(10)), NoNode),
                       Blk(I(10)), Blk(I(20)))),
       Es(IfExpression(BooleanLiteral(TRUE),
                       Blk(IfExpression(BooleanLiteral(FALSE), Blk(I(1)), Blk(I(2)))),
                       Blk(I(3)))),
       Es(IfExpression(BooleanLiteral(FALSE), Blk(I(3)),
                       Blk(IfExpression(BooleanLiteral(TRUE), Blk(I(1)), Blk(I(2)))))),
       Es(PrefixExpression("!", IfExpression(BooleanLiteral(FALSE), Blk(I(5)), NoNode))),
       Es(IfExpression(BooleanLiteral(TRUE), BlockStatement(<<>>), NoNode)),
       Es(Id("g")),
       Es(Id("len")),
       Es(IndexExpression(Id("v"), I(1))),
       Es(IndexExpression(Id("v"), I(99))),
       Es(CallOf("one", <<>>)),
       Es(CallOf("one", <<I(1)>>)),
       Es(CallOf("noRet", <<>>)),
       Es(CallOf("noRetB", <<>>)),
       Es(CallOf("noRetF", <<>>)),
       Es(CallOf("noRetA", <<>>)),
       Es(CallOf("noRetBA", <<>>)),
       Es(CallOf("noRetFA", <<>>)),
       Es(CallOf("late", <<>>)),
       Es(CallOf("id", <<I(24)>>)),
       Es(CallOf("id", <<>>)),
       Es(CallOf("sub", <<I(10), I(3)>>)),
       Es(CallOf("sub", <<I(3)>>)),
       Es(CallOf("minusOne", <<>>)),
       Es(CallOf("early", <<>>)),
       Es(CallOf("tail", <<>>)),
       Es(CallOf("cond", <<I(2)>>)),
       Es(CallOf("cond", <<I(1)>>)),
       Es(InfixExpression(I(1), "+", CallOf("under", <<>>))),
       Es(CallOf("shadow", <<I(7)>>)),
       Es(CallOf("g", <<>>)),
       Es(InfixExpression(I(1), "+", BooleanLiteral(TRUE))),
       Es(PrefixExpression("-", I(5))) >>

\* statements that only the scenarios use
Extras ==
    << Fn("minusTwo", <<>>, "int",
          <<LocalStatement(<<IntVar("num", I(2))>>),
            Ret("minusTwo", InfixExpression(Id("g"), "-", Id("num")))>>),
       Es(InfixExpression(CallOf("minusOne", <<>>), "+", CallOf("minusTwo", <<>>))),
       Fn("a", <<>>, "int", <<Ret("a", I(1))>>),
       Fn("b", <<>>, "int", <<Ret("b", InfixExpression(CallOf("a", <<>>), "+", I(1)))>>),
       Fn("c", <<>>, "int", <<Ret("c", InfixExpression(CallOf("b", <<>>), "+", I(1)))>>),
       Es(CallOf("c", <<>>)),
       GlobalStatement(<<VariableStatement("point", "p", NoNode)>>),
       Es(AccessorExpression(Id("p"), "x")),
       Es(InfixExpression(I(100), "+", CallOf("shadow", <<I(7)>>))),
       GlobalStatement(<<IntVar("g", I(60))>>),
       Fn("setz", <<>>, "int", <<GlobalStatement(<<IntVar("z", I(9))>>), Ret("setz", I(1))>>),
       Es(CallOf("setz", <<>>)),
       GlobalStatement(<<IntVar("h", I(1)), IntVar("k", Id("nope"))>>),
       Es(Id("h")),
       Fn("getg", <<>>, "int", <<Ret("getg", Id("g"))>>),
       Es(CallOf("getg", <<>>)) >>

Catalog == Defs \o Uses \o Extras

DefIdx == 1..Len(Defs)

UseIdx == (Len(Defs) + 1)..(Len(Defs) + Len(Uses))

ExtraAt(k) == Len(Defs) + Len(Uses) + k

\* the index of a definition or a use, by its position in Defs or Uses
DefAt(k) == k

UseAt(k) == Len(Defs) + k

\* the programs of the test-suite and of the specification's scenarios
Scenarios ==
    { <<DefAt(1), DefAt(14), ExtraAt(1), ExtraAt(2)>>,
      <<ExtraAt(3), ExtraAt(4), ExtraAt(5), ExtraAt(6)>>,
      <<DefAt(20), ExtraAt(7), ExtraAt(8)>>,
      <<DefAt(1), DefAt(3), DefAt(19), ExtraAt(9), UseAt(13), UseAt(17)>> }

RECURSIVE SeqsUpTo(_, _)
\* the sequences over S of length at most n
SeqsUpTo(S, n) ==
    IF n = 0 THEN {<<>>}
    ELSE LET shorter == SeqsUpTo(S, n - 1)
         IN  shorter \cup {Append(p, x) : p \in shorter, x \in S}

\* at most MaxStmts definitions followed by at most one use
Programs ==
    {d \o u : d \in SeqsUpTo(DefIdx, MaxStmts - 1), u \in SeqsUpTo(UseIdx, 1)} \cup Scenarios

Statements(prog) == [i \in 1..Len(prog) |-> Catalog[prog[i]]]

(***************************************************************************)
(* The pipeline of runVmTests: compile, build the machine, run             *)
(***************************************************************************)
\* outside RunVm there is no shared state
NoRepl == [symbolTable |-> <<>>, constants |-> <<>>, globals |-> EmptyMap, cycle |-> 0]

NoVM == [constants |-> <<>>, stack |-> <<>>, sp |-> 0, globals |-> EmptyMap,
         frames |-> <<>>, framesIndex |-> 0, err |-> ""]

Init ==
    /\ program \in Programs
    /\ phase = "compile"
    /\ comp = New
    /\ vm = NoVM
    /\ calls = <<>>
    /\ loaded = <<>>
    /\ saved = <<>>
    /\ repl = NoRepl

\* comp.Compile(program)
CompileStep ==
    /\ phase = "compile"
    /\ comp' = CompileProgram(comp, Statements(program))
    /\ phase' = IF comp'.err # "" THEN "compile_error" ELSE "compiled"
    /\ UNCHANGED <<program, vm, calls, loaded, saved, repl>>

\* vm := New(comp.Bytecode())
NewVMStep ==
    /\ phase = "compiled"
    /\ vm' = NewVM(Bytecode(comp), EmptyMap)
    /\ phase' = "run"
    /\ UNCHANGED <<program, comp, calls, loaded, saved, repl>>

\* one iteration of the loop of Run on an opcode of ops
VmStep(ops, next) ==
    /\ phase = "run"
    /\ HasNext(vm)
    /\ NextOp(vm) \in ops
    /\ vm' = next
    /\ phase' = IF next.err # "" THEN "runtime_error" ELSE "run"
    /\ UNCHANGED <<program, comp, saved, repl>>

StepConstant ==
    /\ VmStep({OpConstant}, ExecConstant(vm))
    /\ loaded' = Append(loaded, NextOperand(vm))
    /\ UNCHANGED calls

StepPop == VmStep({OpPop}, ExecPop(vm)) /\ UNCHANGED <<calls, loaded>>

StepBinary ==
    VmStep({OpAdd, OpSub, OpMul, OpDiv}, ExecBinary(vm)) /\ UNCHANGED <<calls, loaded>>

StepLiteral ==
    VmStep({OpTrue, OpFalse, OpNull}, ExecLiteral(vm)) /\ UNCHANGED <<calls, loaded>>

StepComparison ==
    VmStep({OpEqual, OpNotEqual, OpGreaterThan}, ExecComparison(vm))
    /\ UNCHANGED <<calls, loaded>>

StepUnary == VmStep({OpMinus, OpBang}, ExecUnary(vm)) /\ UNCHANGED <<calls, loaded>>

StepJump == VmStep({OpJump}, ExecJump(vm)) /\ UNCHANGED <<calls, loaded>>

StepJumpNotTruthy ==
    VmStep({OpJumpNotTruthy}, ExecJumpNotTruthy(vm)) /\ UNCHANGED <<calls, loaded>>

StepSetGlobal == VmStep({OpSetGlobal}, ExecSetGlobal(vm)) /\ UNCHANGED <<calls, loaded>>

StepGetGlobal == VmStep({OpGetGlobal}, ExecGetGlobal(vm)) /\ UNCHANGED <<calls, loaded>>

StepSetLocal == VmStep({OpSetLocal}, ExecSetLocal(vm)) /\ UNCHANGED <<calls, loaded>>

StepGetLocal == VmStep({OpGetLocal}, ExecGetLocal(vm)) /\ UNCHANGED <<calls, loaded>>

StepGetBuiltin == VmStep({OpGetBuiltin}, ExecGetBuiltin(vm)) /\ UNCHANGED <<calls, loaded>>

StepArray == VmStep({OpArray}, ExecArray(vm)) /\ UNCHANGED <<calls, loaded>>

StepStruct == VmStep({OpStruct}, ExecStruct(vm)) /\ UNCHANGED <<calls, loaded>>

StepGetAttribute ==
    VmStep({OpGetAttribute}, ExecGetAttribute(vm)) /\ UNCHANGED <<calls, loaded>>

StepIndex == VmStep({OpIndex}, ExecIndex(vm)) /\ UNCHANGED <<calls, loaded>>

\* the record kept for a call: where the callee sits and what lies below it
CallRecord(m) ==
    LET n == NextOperand(m)
    IN  [framesIndex |-> m.framesIndex,
         calleePos |-> m.sp - 1 - n,
         below |-> [i \in 1..(m.sp - 1 - n) |-> StackAt(m, i - 1)],
         args |-> [i \in 1..n |-> StackAt(m, m.sp - n + i - 1)]]

StepCall ==
    /\ VmStep({OpCall}, ExecCall(vm))
    /\ calls' = IF vm'.err = "" THEN Append(calls, CallRecord(vm)) ELSE calls
    /\ UNCHANGED loaded

StepReturn ==
    /\ VmStep({OpReturn, OpReturnValue},
              IF NextOp(vm) = OpReturnValue THEN ExecReturnValue(vm) ELSE ExecReturn(vm))
    /\ calls' = IF vm'.err = "" THEN SubSeq(calls, 1, Len(calls) - 1) ELSE calls
    /\ UNCHANGED loaded

\* the loop of Run ends: the current frame has no instruction left
Halt ==
    /\ phase = "run"
    /\ ~HasNext(vm)
    /\ phase' = "done"
    /\ UNCHANGED <<program, comp, vm, calls, loaded, saved, repl>>

Next ==
    \/ CompileStep
    \/ NewVMStep
    \/ StepConstant
    \/ StepPop
    \/ StepBinary
    \/ StepLiteral
    \/ StepComparison
    \/ StepUnary
    \/ StepJump
    \/ StepJumpNotTruthy
    \/ StepSetGlobal
    \/ StepGetGlobal
    \/ StepSetLocal
    \/ StepGetLocal
    \/ StepGetBuiltin
    \/ StepArray
    \/ StepStruct
    \/ StepGetAttribute
    \/ StepIndex
    \/ StepCall
    \/ StepReturn
    \/ Halt

Spec == Init /\ [][Next]_vars

(***************************************************************************)
(* Reading a compiled buffer                                               *)
(***************************************************************************)
RECURSIVE StartsFrom(_, _)
\* the offsets of the opcode bytes of ins from offset pos on
StartsFrom(ins, pos) ==
    IF pos >= Len(ins) THEN {}
    ELSE {pos} \cup StartsFrom(ins, pos + 1 + OperandWidth(ins[pos + 1]))

InstructionStarts(ins) == StartsFrom(ins, 0)

OpAt(ins, pos) == ins[pos + 1]

JumpStarts(ins) == {pos \in InstructionStarts(ins) : OpAt(ins, pos) \in {OpJump, OpJumpNotTruthy}}

\* the opcode of the last instruction of a non-empty buffer
LastOpcode(ins) ==
    LET last == CHOOSE pos \in InstructionStarts(ins) :
                    \A q \in InstructionStarts(ins) : q <= pos
    IN  OpAt(ins, last)

\* the operands of the instructions with opcode op, in buffer order
RECURSIVE OperandsOfFrom(_, _, _)
OperandsOfFrom(ins, op, pos) ==
    IF pos >= Len(ins) THEN <<>>
    ELSE (IF OpAt(ins, pos) = op THEN <<OperandAt(ins, pos)>> ELSE <<>>)
         \o OperandsOfFrom(ins, op, pos + 1 + OperandWidth(OpAt(ins, pos)))

OperandsOf(ins, op) == OperandsOfFrom(ins, op, 0)

RECURSIVE ReachesReturn(_, _)
\* every path of the buffer from offset pos executes Return or ReturnValue
ReachesReturn(ins, pos) ==
    IF pos < 0 \/ pos >= Len(ins) THEN FALSE
    ELSE IF OpAt(ins, pos) \in {OpReturn, OpReturnValue} THEN TRUE
    ELSE IF OpAt(ins, pos) = OpJump
    THEN OperandAt(ins, pos) > pos /\ ReachesReturn(ins, OperandAt(ins, pos))
    ELSE IF OpAt(ins, pos) = OpJumpNotTruthy
    THEN /\ OperandAt(ins, pos) > pos
         /\ ReachesReturn(ins, OperandAt(ins, pos))
         /\ ReachesReturn(ins, pos + 3)
    ELSE ReachesReturn(ins, pos + 1 + OperandWidth(OpAt(ins, pos)))

\* the compiled functions of a constants pool
FunctionsOf(constants) ==
    {constants[k] : k \in {j \in 1..Len(constants) : constants[j].t = "COMPILED_FUNCTION"}}

\* the compiler has returned without error
Compiled == phase \in {"compiled", "run", "done", "runtime_error"}

\* every buffer the compilation produced: the top-level one and the functions'
Buffers == {currentInstructions(comp)} \cup {fn.Instructions : fn \in FunctionsOf(comp.constants)}

(***************************************************************************)
(* The meaning of programs (specification 4.1, 4.4 and 8): what an         *)
(* expression yields and which integer literals it evaluates.  An          *)
(* environment holds the locals of the call, the globals and the function  *)
(* definitions, by name.                                                   *)
(***************************************************************************)
Yield(val, lits) == [val |-> val, lits |-> lits]

DefaultValue(retType, isArray) ==
    LET d == CASE retType = "int" -> Integer(0)
               [] retType = "bool" -> Boolean(FALSE)
               [] retType = "float" -> Float(0)
               [] OTHER -> Null
    IN  IF isArray THEN Array(<<d>>) ELSE d

HasReturnAssignment(fnNode) ==
    \E i \in 1..Len(fnNode.Body) :
        /\ fnNode.Body[i].kind = "AssignmentStatement"
        /\ fnNode.Body[i].Left = Id(fnNode.FnName)

RECURSIVE MeaningExpr(_, _), MeaningList(_, _, _), MeaningBlock(_, _, _, _),
          MeaningLocals(_, _, _, _), MeaningBody(_, _, _, _)

\* the values of the expressions es[i..], left to right
MeaningList(es, env, i) ==
    IF i > Len(es) THEN [vals |-> <<>>, lits |-> <<>>]
    ELSE LET h == MeaningExpr(es[i], env)
             r == MeaningList(es, env, i + 1)
         IN  [vals |-> <<h.val>> \o r.vals, lits |-> h.lits \o r.lits]

\* a block yields the value of its last expression statement
MeaningBlock(stmts, env, i, last) ==
    IF i > Len(stmts) THEN last
    ELSE IF stmts[i].kind = "ExpressionStatement"
    THEN LET r == MeaningExpr(stmts[i].Expression, env)
         IN  MeaningBlock(stmts, env, i + 1, Yield(r.val, last.lits \o r.lits))
    ELSE MeaningBlock(stmts, env, i + 1, last)

\* the declarations of a local block, in order: [env, lits]
MeaningLocals(decls, env, i, lits) ==
    IF i > Len(decls) THEN [env |-> env, lits |-> lits]
    ELSE LET r == IF decls[i].kind = "ArrayStatement"
                  THEN LET l == MeaningList(decls[i].Elements, env, 1)
                       IN  Yield(Array(l.vals), l.lits)
                  ELSE MeaningExpr(decls[i].Value, env)
         IN  MeaningLocals(decls, [env EXCEPT !.locals = MapPut(@, decls[i].VarName, r.val)],
                           i + 1, lits \o r.lits)

\* the body of a function from statement i on: the first assignment to the
\* function's name ends the call; without one the call yields the default
MeaningBody(fnNode, env, i, lits) ==
    IF i > Len(fnNode.Body)
    THEN Yield(DefaultValue(fnNode.ReturnType, fnNode.IsArray),
               lits \o (IF fnNode.ReturnType \in {"int", "float"}
                        THEN <<DefaultValue(fnNode.ReturnType, FALSE)>> ELSE <<>>))
    ELSE LET stmt == fnNode.Body[i]
         IN  IF stmt.kind = "AssignmentStatement"
             THEN IF stmt.Left = Id(fnNode.FnName)
                  THEN LET r == MeaningExpr(stmt.Value, env)
                       IN  Yield(r.val, lits \o r.lits)
                  ELSE MeaningBody(fnNode, env, i + 1, lits)
             ELSE IF stmt.kind = "LocalStatement"
             THEN LET r == MeaningLocals(stmt.Body, env, 1, lits)
                  IN  MeaningBody(fnNode, r.env, i + 1, r.lits)
             ELSE IF stmt.kind = "ExpressionStatement"
             THEN LET r == MeaningExpr(stmt.Expression, env)
                  IN  MeaningBody(fnNode, env, i + 1, lits \o r.lits)
             ELSE MeaningBody(fnNode, env, i + 1, lits)

MeaningExpr(e, env) ==
    CASE e.kind = "IntegerLiteral" -> Yield(Integer(e.IntValue), <<Integer(e.IntValue)>>)
      [] e.kind = "FloatLiteral" -> Yield(Float(e.FloatValue), <<Float(e.FloatValue)>>)
      [] e.kind = "Boolean" -> Yield(Boolean(e.BoolValue), <<>>)
      [] e.kind = "Identifier" ->
            Yield(IF e.Name \in DOMAIN env.locals THEN env.locals[e.Name]
                  ELSE env.globals[e.Name], <<>>)
      [] e.kind = "PrefixExpression" ->
            LET r == MeaningExpr(e.Right, env)
            IN  Yield(IF e.Operator = "!" THEN Boolean(~isTruthy(r.val))
                      ELSE Integer(-r.val.i), r.lits)
      [] e.kind = "InfixExpression" ->
            LET l == MeaningExpr(e.Left, env)
                r == MeaningExpr(e.Right, env)
            IN  Yield(IF e.Operator = "<" THEN ComparisonResult(OpGreaterThan, r.val, l.val)
                      ELSE IF e.Operator \in {">", "==", "!="}
                      THEN ComparisonResult(InfixOpcode(e.Operator), l.val, r.val)
                      ELSE BinaryResult(InfixOpcode(e.Operator), l.val, r.val),
                      l.lits \o r.lits)
      [] e.kind = "IfExpression" ->
            LET c == MeaningExpr(e.Condition, env)
            IN  IF isTruthy(c.val)
                THEN MeaningBlock(e.Consequence.Statements, env, 1, Yield(Null, c.lits))
                ELSE IF e.Alternative = NoNode THEN Yield(Null, c.lits)
                ELSE MeaningBlock(e.Alternative.Statements, env, 1, Yield(Null, c.lits))
      [] e.kind = "IndexExpression" ->
            LET l == MeaningExpr(e.Left, env)
                x == MeaningExpr(e.Index, env)
            IN  Yield(IF x.val.i >= 0 /\ x.val.i < Len(l.val.Elements)
                      THEN l.val.Elements[x.val.i + 1] ELSE Null, l.lits \o x.lits)
      [] e.kind = "CallExpression" ->
            LET fnNode == env.fns[e.Function.Name]
                args == MeaningList(e.Arguments, env, 1)
                frame == [env EXCEPT !.locals =
                            [n \in {fnNode.Parameters[k] : k \in 1..Len(fnNode.Parameters)} |->
                                args.vals[CHOOSE k \in 1..Len(fnNode.Parameters) :
                                              fnNode.Parameters[k] = n]]]
            IN  MeaningBody(fnNode, frame, 1, args.lits)
      [] OTHER -> Yield(Null, <<>>)

\* the literals a struct declaration evaluates: its attributes' initial values
RECURSIVE MeaningStructs(_, _, _)
MeaningStructs(structs, env, i) ==
    IF i > Len(structs) THEN <<>>
    ELSE LET vals == [k \in 1..Len(structs[i].Attributes) |-> structs[i].Attributes[k].Value]
         IN  MeaningList(vals, env, 1).lits \o MeaningStructs(structs, env, i + 1)

\* the environment and the last value after the top-level statements stmts[i..]
RECURSIVE MeaningProgram(_, _, _, _)
MeaningProgram(stmts, env, i, last) ==
    IF i > Len(stmts) THEN last
    ELSE LET stmt == stmts[i]
         IN  IF stmt.kind = "GlobalStatement"
             THEN LET r == MeaningLocals(stmt.Body, [env EXCEPT !.locals = env.globals], 1, last.lits)
                  IN  MeaningProgram(stmts, [env EXCEPT !.globals = r.env.locals], i + 1,
                                     Yield(last.val, r.lits))
             ELSE IF stmt.kind = "FunctionStatement"
             THEN MeaningProgram(stmts, [env EXCEPT !.fns = MapPut(@, stmt.FnName, stmt)],
                                 i + 1, last)
             ELSE IF stmt.kind = "StructsStatement"
             THEN MeaningProgram(stmts, env, i + 1,
                                 Yield(last.val, last.lits \o MeaningStructs(stmt.Structs, env, 1)))
             ELSE IF stmt.kind = "VariableStatement"
             THEN LET r == MeaningExpr(stmt.Value, env)
                  IN  MeaningProgram(stmts, [env EXCEPT !.globals = MapPut(@, stmt.VarName, r.val)],
                                     i + 1, Yield(last.val, last.lits \o r.lits))
             ELSE IF stmt.kind = "ExpressionStatement"
             THEN LET r == MeaningExpr(stmt.Expression, env)
                  IN  MeaningProgram(stmts, env, i + 1, Yield(r.val, last.lits \o r.lits))
             ELSE MeaningProgram(stmts, env, i + 1, last)

Meaning(prog) ==
    MeaningProgram(Statements(prog), [locals |-> EmptyMap, globals |-> EmptyMap, fns |-> EmptyMap],
                   1, Yield(Null, <<>>))

\* the same elements the same number of times
SameBag(s1, s2) ==
    /\ Len(s1) = Len(s2)
    /\ \A i \in 1..Len(s1) :
          Cardinality({j \in 1..Len(s1) : s1[j] = s1[i]})
              = Cardinality({j \in 1..Len(s2) : s2[j] = s1[i]})

\* the integer and float constants the machine has pushed with Constant
LoadedLiterals ==
    LET vals == [i \in 1..Len(loaded) |-> vm.constants[loaded[i] + 1]]
    IN  SelectSeq(vals, LAMBDA v : v.t \in {"INTEGER", "FLOAT"})

LastStatement == Catalog[program[Len(program)]]

(***************************************************************************)
(* Properties                                                              *)
(***************************************************************************)

\* C1: when run returns without a runtime error the stack is empty (sp = 0):
\* every value a top-level statement pushed has been popped or stored.
C1_StackEmptyAfterRun == phase = "done" => vm.sp = 0

\* C2: the buffer of every compiled function ends with Return or ReturnValue,
\* and every path through it, from its start and from the target of each of
\* its jumps, reaches a Return or ReturnValue before the end of the buffer.
C2_FunctionsEndWithReturn ==
    \A fn \in FunctionsOf(comp.constants) :
        /\ LastOpcode(fn.Instructions) \in {OpReturn, OpReturnValue}
        /\ ReachesReturn(fn.Instructions, 0)
        /\ \A pos \in JumpStarts(fn.Instructions) :
              ReachesReturn(fn.Instructions, OperandAt(fn.Instructions, pos))

\* a function with jumps whose return assignment is followed by an if-expression
C2_Witness ==
    /\ Compiled
    /\ \E fn \in FunctionsOf(comp.constants) :
          /\ JumpStarts(fn.Instructions) # {}
          /\ Len(OperandsOf(fn.Instructions, OpReturnValue)) >= 2

\* C3: after compilation the operand of every Jump and JumpNotTruthy
\* is the offset of the first byte of an instruction of the same buffer.
C3_JumpsTargetInstructions ==
    Compiled =>
        \A ins \in Buffers : \A pos \in JumpStarts(ins) :
            OperandAt(ins, pos) \in InstructionStarts(ins)

\* the program ends with an if-expression statement over literals that yields a value
EndsWithIf ==
    /\ Len(program) > 0
    /\ LastStatement.kind = "ExpressionStatement"
    /\ LastStatement.Expression.kind = "IfExpression"
    /\ LastStatement.Expression.Consequence.Statements # <<>>

\* C4: a compiled if-expression evaluates its condition once and then exactly
\* one branch: it yields the value of the consequence when the condition is
\* truthy, otherwise the value of the alternative or Null; the literals the
\* machine loads are those of the condition and of the branch taken, once each.
C4_IfYieldsOneBranch ==
    (phase = "done" /\ EndsWithIf) =>
        /\ LastPoppedStackElem(vm) = Meaning(program).val
        /\ SameBag(LoadedLiterals, Meaning(program).lits)

\* a nested if-expression with an else has run: its value came from one branch
C4_Witness ==
    /\ phase = "done"
    /\ EndsWithIf
    /\ LastStatement.Expression.Alternative # NoNode
    /\ Cardinality(JumpStarts(currentInstructions(comp))) >= 4
    /\ LastPoppedStackElem(vm) = Integer(2)

\* the last function definition of the program with this name
FnNodeOf(name) ==
    LET stmts == Statements(program)
        k == CHOOSE i \in 1..Len(stmts) :
                /\ stmts[i].kind = "FunctionStatement" /\ stmts[i].FnName = name
                /\ \A j \in (i + 1)..Len(stmts) :
                      ~(stmts[j].kind = "FunctionStatement" /\ stmts[j].FnName = name)
    IN  stmts[k]

\* the program ends with the statement `f(args);`
EndsWithCall ==
    /\ Len(program) > 0
    /\ LastStatement.kind = "ExpressionStatement"
    /\ LastStatement.Expression.kind = "CallExpression"

\* the machine is about to execute op
About(op) == phase = "run" /\ HasNext(vm) /\ NextOp(vm) = op

CalleeOfCall == StackAt(vm, vm.sp - 1 - NextOperand(vm))

ArgsOfCall == [i \in 1..NextOperand(vm) |-> StackAt(vm, vm.sp - NextOperand(vm) + i - 1)]

\* the effect of Call on a compiled function, by the number of arguments
CallEffect ==
    (About(OpCall) /\ CalleeOfCall.t = "COMPILED_FUNCTION") =>
        LET n == NextOperand(vm)
            fn == CalleeOfCall
        IN  /\ n # fn.NumParameters =>
                /\ vm'.err = "ArityMismatch"
                /\ vm'.framesIndex = vm.framesIndex
                /\ Len(vm'.frames) = Len(vm.frames)
                /\ vm'.sp = vm.sp
            /\ n = fn.NumParameters =>
                /\ vm'.err = ""
                /\ vm'.framesIndex = vm.framesIndex + 1
                /\ currentFrame(vm').basePointer = vm.sp - n
                /\ \A i \in 0..(n - 1) :
                      StackAt(vm', currentFrame(vm').basePointer + i) = ArgsOfCall[i + 1]

\* the machine is at the Call of the statement `f(args);` that ends the program
AtLastStatement ==
    /\ vm.framesIndex = 1
    /\ NextIp(vm) = Len(currentInstructions(comp)) - 3

\* the call `f(args);` that ends the program: P is the number of parameters
\* of the definition of f, the arguments are the values of args in order
SourceCallEffect ==
    (About(OpCall) /\ CalleeOfCall.t = "COMPILED_FUNCTION" /\ AtLastStatement /\ EndsWithCall) =>
        LET fnNode == FnNodeOf(LastStatement.Expression.Function.Name)
            args == LastStatement.Expression.Arguments
        IN  /\ CalleeOfCall.NumParameters = Len(fnNode.Parameters)
            /\ NextOperand(vm) = Len(args)
            /\ ArgsOfCall = MeaningList(args, [locals |-> EmptyMap, globals |-> EmptyMap,
                                               fns |-> EmptyMap], 1).vals

\* the locals of every compiled function: L >= P and SetLocal P .. L-1 in order
LocalSlots ==
    \A fn \in FunctionsOf(comp.constants) :
        /\ fn.NumLocals >= fn.NumParameters
        /\ OperandsOf(fn.Instructions, OpSetLocal)
              = [i \in 1..(fn.NumLocals - fn.NumParameters) |-> fn.NumParameters + i - 1]

C5_ArityWitness == phase = "runtime_error" /\ vm.err = "ArityMismatch"

\* the effect of a return on the frames and the stack, against the record of the call
ReturnEffect ==
    ((About(OpReturnValue) \/ About(OpReturn)) /\ vm.framesIndex > 1 /\ calls # <<>>) =>
        LET r == calls[Len(calls)]
            returned == IF NextOp(vm) = OpReturnValue THEN StackAt(vm, vm.sp - 1) ELSE Null
        IN  /\ vm'.err = ""
            /\ vm'.framesIndex = r.framesIndex
            /\ vm'.sp = r.calleePos + 1
            /\ StackAt(vm', vm'.sp - 1) = returned
            /\ \A i \in 1..Len(r.below) : StackAt(vm', i - 1) = r.below[i]

\* C6: after a call of a compiled function returns, at any depth, the frame
\* index is the one before the call, sp is the callee's position plus one, the
\* top of the stack is the returned value and the stack below the callee's
\* position is unchanged.
C6_ReturnRestoresCaller == [][ReturnEffect]_vars

\* the program ends with an expression statement that calls a function with a
\* return assignment
EndsWithReturningCall ==
    /\ EndsWithCall
    /\ HasReturnAssignment(FnNodeOf(LastStatement.Expression.Function.Name))

\* C7: a call of f whose body has the statement `f = e;` returns the value of e
\* in f's frame and nothing after that statement executes; through the chain
\* a() = 1, b() = a() + 1, c() = b() + 1 the call c() gives 3.
C7_ReturnAssignment ==
    (phase = "done" /\ EndsWithReturningCall) =>
        /\ LastPoppedStackElem(vm) = Meaning(program).val
        /\ SameBag(LoadedLiterals, Meaning(program).lits)
        /\ LastStatement = Es(CallOf("c", <<>>)) => LastPoppedStackElem(vm) = Integer(3)

\* c() has returned 3 through b() and a()
C7_Witness ==
    /\ phase = "done"
    /\ Len(program) > 0
    /\ LastStatement = Es(CallOf("c", <<>>))
    /\ LastPoppedStackElem(vm) = Integer(3)

\* early() has returned at its first return assignment
C7_EarlyWitness ==
    /\ phase = "done"
    /\ Len(program) > 0
    /\ LastStatement = Es(CallOf("early", <<>>))
    /\ LastPoppedStackElem(vm) = Integer(1)
    /\ LoadedLiterals = <<Integer(1)>>

\* the function definitions of the program without a return assignment
NoReturnFns ==
    {stmt \in {Statements(program)[i] : i \in 1..Len(program)} :
        stmt.kind = "FunctionStatement" /\ ~HasReturnAssignment(stmt)}

\* C8: a function without a return assignment returns the default of its
\* return type: Integer 0, Boolean false, Float 0.0, or a one-element array of
\* it for int[], bool[], float[]; a return type of string or another name
\* fails compilation with an unknown-return-type error.
C8_DefaultReturn ==
    /\ (phase = "done" /\ EndsWithCall
          /\ FnNodeOf(LastStatement.Expression.Function.Name) \in NoReturnFns) =>
            LET fnNode == FnNodeOf(LastStatement.Expression.Function.Name)
                dflt == CASE fnNode.ReturnType = "int" -> Integer(0)
                          [] fnNode.ReturnType = "bool" -> Boolean(FALSE)
                          [] fnNode.ReturnType = "float" -> Float(0)
            IN  LastPoppedStackElem(vm) = IF fnNode.IsArray THEN Array(<<dflt>>) ELSE dflt
    /\ (phase # "compile" /\ Len(program) > 0 /\ Statements(program)[1] \in NoReturnFns
          /\ Statements(program)[1].ReturnType \notin {"int", "bool", "float"}) =>
            phase = "compile_error" /\ comp.err = "unknown return type"

\* a function without a return assignment has returned a one-element array
C8_Witness ==
    /\ phase = "done"
    /\ EndsWithCall
    /\ FnNodeOf(LastStatement.Expression.Function.Name) \in NoReturnFns
    /\ LastPoppedStackElem(vm) = Array(<<Float(0)>>)

\* a function of return type string without a return assignment was rejected
C8_ErrorWitness == phase = "compile_error" /\ comp.err = "unknown return type"

\* the effect of SetLocal k: one slot of the current frame, nothing else
SetLocalEffect ==
    About(OpSetLocal) =>
        LET slot == currentFrame(vm).basePointer + NextOperand(vm)
        IN  /\ vm'.globals = vm.globals
            /\ StackAt(vm', slot) = StackAt(vm, vm.sp - 1)
            /\ \A i \in 0..(Len(vm.stack) + Len(vm'.stack)) :
                  i # slot => StackAt(vm', i) = StackAt(vm, i)
            /\ vm'.framesIndex = vm.framesIndex
            /\ \A f \in 1..vm.framesIndex :
                  vm'.frames[f].basePointer = vm.frames[f].basePointer

\* the program of the specification: globalSeed = 50, minusOne() + minusTwo()
EndsWithSeedSum ==
    /\ Len(program) > 0
    /\ LastStatement = Es(InfixExpression(CallOf("minusOne", <<>>), "+", CallOf("minusTwo", <<>>)))

\* C9: SetLocal k writes stack[base pointer + k] of the current frame and
\* changes no global and no other stack slot, so locals of the same name in
\* different functions do not interfere, and a function body reads a global
\* from its global slot: minusOne() + minusTwo() with the global 50 gives 97.
C9_LocalsStayInFrame ==
    /\ [][SetLocalEffect]_vars
    /\ []((phase \in {"compile_error", "runtime_error", "done"} /\ EndsWithSeedSum) =>
              (phase = "done" /\ LastPoppedStackElem(vm) = Integer(97)))

\* minusOne() + minusTwo() has run and given 97
C9_Witness ==
    /\ phase = "done"
    /\ EndsWithSeedSum
    /\ LastPoppedStackElem(vm) = Integer(97)
    /\ GlobalAt(vm, 0) = Integer(50)

(***************************************************************************)
(* Scopes: the compiler's symbol table under define, enterScope and        *)
(* leaveScope in any order, as the FunctionStatement case and the tests of *)
(* the compiler drive them.  saved holds, for every scope entered and not  *)
(* yet left, the compiler's table and scope index at enterScope.           *)
(***************************************************************************)
ScopeNames == {"x", "y", "len"}

\* the definitions made in the tables of the chain
TotalDefinitions(tabs) ==
    LET RECURSIVE Sum(_)
        Sum(k) == IF k = 0 THEN 0 ELSE tabs[k].numDefinitions + Sum(k - 1)
    IN  Sum(Len(tabs))

InitScopes ==
    /\ program = <<>>
    /\ phase = "scopes"
    /\ comp = New
    /\ vm = NoVM
    /\ calls = <<>>
    /\ loaded = <<>>
    /\ saved = <<>>
    /\ repl = NoRepl

\* c.symbolTable.Define(name)
ScopeDefine ==
    /\ phase = "scopes"
    /\ TotalDefinitions(comp.symbolTable) < MaxDefs
    /\ \E name \in ScopeNames :
          comp' = [comp EXCEPT !.symbolTable = Define(comp.symbolTable, name).tabs]
    /\ UNCHANGED <<program, phase, vm, calls, loaded, saved, repl>>

\* c.enterScope()
ScopeEnter ==
    /\ phase = "scopes"
    /\ comp.scopeIndex < MaxScopeDepth
    /\ comp' = enterScope(comp)
    /\ saved' = Append(saved, [symbolTable |-> comp.symbolTable, scopeIndex |-> comp.scopeIndex])
    /\ UNCHANGED <<program, phase, vm, calls, loaded, repl>>

\* c.leaveScope()
ScopeLeave ==
    /\ phase = "scopes"
    /\ comp.scopeIndex > 0
    /\ comp' = leaveScope(comp)
    /\ saved' = SubSeq(saved, 1, Len(saved) - 1)
    /\ UNCHANGED <<program, phase, vm, calls, loaded, repl>>

NextScopes ==
    \/ ScopeDefine
    \/ ScopeEnter
    \/ ScopeLeave

SpecScopes == InitScopes /\ [][NextScopes]_vars

\* the current table, and the chain of tables outside it
CurrentTable == comp.symbolTable[Len(comp.symbolTable)]

OuterTables == SubSeq(comp.symbolTable, 1, Len(comp.symbolTable) - 1)

\* inside a scope: a name defined in the current table resolves to its Local
\* symbol there, and the tables outside are the ones of enterScope
ShadowInScope ==
    (phase = "scopes" /\ saved # <<>>) =>
        /\ OuterTables = saved[Len(saved)].symbolTable
        /\ \A x \in DOMAIN CurrentTable.store :
              /\ Resolve(comp.symbolTable, x).ok
              /\ Resolve(comp.symbolTable, x).symbol = CurrentTable.store[x]
              /\ Resolve(comp.symbolTable, x).symbol.Scope = LocalScope
              /\ Resolve(OuterTables, x) = Resolve(saved[Len(saved)].symbolTable, x)

\* leaveScope: the table and scope index of enterScope are current again, so
\* every name resolves as it did before enterScope
LeaveRestores ==
    (phase = "scopes" /\ saved # <<>> /\ Len(saved') < Len(saved)) =>
        /\ comp'.symbolTable = saved[Len(saved)].symbolTable
        /\ comp'.scopeIndex = saved[Len(saved)].scopeIndex
        /\ \A x \in ScopeNames :
              Resolve(comp'.symbolTable, x) = Resolve(saved[Len(saved)].symbolTable, x)

\* C10: a name defined in an enclosed table resolves to the inner Local symbol
\* while that table is current and the outer table's entry is unchanged; after
\* leaveScope the name resolves to the outer symbol again and the compiler's
\* table and scope index are those before enterScope.
C10_ShadowAndRestore == [](ShadowInScope) /\ [][LeaveRestores]_vars

\* x is defined outside and inside: inside it resolves to the Local symbol
C10_Witness ==
    /\ phase = "scopes"
    /\ Len(comp.symbolTable) = 2
    /\ "x" \in DOMAIN comp.symbolTable[1].store
    /\ comp.symbolTable[1].store["x"].Scope = GlobalScope
    /\ "x" \in DOMAIN CurrentTable.store
    /\ Resolve(comp.symbolTable, "x").symbol.Scope = LocalScope

\* a scope that shadowed a built-in was left: len is the built-in again
C10_LeftWitness ==
    /\ phase = "scopes"
    /\ saved = <<>>
    /\ comp.scopeIndex = 0
    /\ TotalDefinitions(comp.symbolTable) = MaxDefs - 1
    /\ Resolve(comp.symbolTable, "len").symbol.Scope = BuiltinScope
    /\ Resolve(comp.symbolTable, "x").symbol.Scope = GlobalScope

(***************************************************************************)
(* RunVm: the read-compile-run loop.  Every cycle compiles one line with   *)
(* NewWithState(symbolTable, constants) and runs it on the shared globals. *)
(* The symbol table is shared by reference: what Compile defines in it is  *)
(* there for the next cycle whether or not Compile succeeded; constants is *)
(* replaced by code.Constants only after a successful Compile.             *)
(***************************************************************************)

\* VM.Run: the dispatch on the opcode read
Exec(m) ==
    LET op == NextOp(m)
    IN  CASE op = OpConstant -> ExecConstant(m)
          [] op = OpPop -> ExecPop(m)
          [] op \in {OpAdd, OpSub, OpMul, OpDiv} -> ExecBinary(m)
          [] op \in {OpTrue, OpFalse, OpNull} -> ExecLiteral(m)
          [] op \in {OpEqual, OpNotEqual, OpGreaterThan} -> ExecComparison(m)
          [] op \in {OpMinus, OpBang} -> ExecUnary(m)
          [] op = OpJump -> ExecJump(m)
          [] op = OpJumpNotTruthy -> ExecJumpNotTruthy(m)
          [] op = OpSetGlobal -> ExecSetGlobal(m)
          [] op = OpGetGlobal -> ExecGetGlobal(m)
          [] op = OpSetLocal -> ExecSetLocal(m)
          [] op = OpGetLocal -> ExecGetLocal(m)
          [] op = OpGetBuiltin -> ExecGetBuiltin(m)
          [] op = OpArray -> ExecArray(m)
          [] op = OpStruct -> ExecStruct(m)
          [] op = OpGetAttribute -> ExecGetAttribute(m)
          [] op = OpIndex -> ExecIndex(m)
          [] op = OpCall -> ExecCall(m)
          [] op = OpReturnValue -> ExecReturnValue(m)
          [] op = OpReturn -> ExecReturn(m)
          [] OTHER -> VmFail(m, "UnknownOpcode")

RECURSIVE Run(_)
\* VM.Run: the loop, until the main frame ends or an instruction fails
Run(m) ==
    IF m.err # "" \/ ~HasNext(m) THEN m
    ELSE CHOOSE r \in {Run(n) : n \in {Exec(m)}} : TRUE

\* the lines typed at the prompt
ReplLines ==
    { <<DefAt(1)>>, <<UseAt(13)>>, <<DefAt(3)>>, <<UseAt(17)>>, <<UseAt(14)>>, <<UseAt(38)>>,
      <<ExtraAt(10)>>, <<ExtraAt(11), ExtraAt(12)>>, <<ExtraAt(13)>>, <<ExtraAt(14)>>,
      <<ExtraAt(15)>>, <<ExtraAt(16)>> }

\* comp := compiler.NewWithState(symbolTable, constants)
ReplCompiler == NewWithState(repl.symbolTable, repl.constants)

\* the table RunVm holds after comp.Compile: the one it passed, as Compile left it
SharedTable(c) == <<c.symbolTable[1]>>

InitRepl ==
    /\ program = <<>>
    /\ phase = "prompt"
    /\ comp = New
    /\ vm = NoVM
    /\ calls = <<>>
    /\ loaded = <<>>
    /\ saved = <<>>
    /\ repl = [symbolTable |-> <<NewSymbolTable>>, constants |-> <<>>, globals |-> EmptyMap,
               cycle |-> 0]

\* a cycle whose Compile fails: the error is printed, constants is not replaced
ReplCompileError ==
    /\ repl.cycle < MaxCycles
    /\ \E line \in ReplLines :
          \E c \in {CompileProgram(ReplCompiler, Statements(line))} :
              /\ c.err # ""
              /\ program' = line
              /\ comp' = c
              /\ repl' = [repl EXCEPT !.symbolTable = SharedTable(c), !.cycle = @ + 1]
    /\ phase' = "compile_error"
    /\ vm' = NoVM
    /\ UNCHANGED <<calls, loaded, saved>>

\* a cycle whose Compile succeeds: constants = code.Constants, then machine.Run()
ReplRun ==
    /\ repl.cycle < MaxCycles
    /\ \E line \in ReplLines :
          \E c \in {CompileProgram(ReplCompiler, Statements(line))} :
          \E m \in {IF c.err = "" THEN Run(NewVM(Bytecode(c), repl.globals)) ELSE NoVM} :
              /\ c.err = ""
              /\ program' = line
              /\ comp' = c
              /\ vm' = m
              /\ phase' = IF m.err # "" THEN "runtime_error" ELSE "done"
              /\ repl' = [symbolTable |-> SharedTable(c), constants |-> c.constants,
                          globals |-> m.globals, cycle |-> repl.cycle + 1]
    /\ UNCHANGED <<calls, loaded, saved>>

NextRepl ==
    \/ ReplCompileError
    \/ ReplRun

SpecRepl == InitRepl /\ [][NextRepl]_vars

\* the names the shared table resolves to a global slot
GlobalNames(tabs) ==
    {x \in DOMAIN tabs[1].store : tabs[1].store[x].Scope = GlobalScope}

\* C11: over a successful cycle of RunVm every name the shared table resolved
\* keeps its global slot, the slot keeps its value, and the constants that
\* functions of earlier cycles refer to by index are the same values.
C11_ReplStateCarriesOver ==
    [][(phase \in {"prompt", "done"} /\ phase' = "done") =>
          /\ \A x \in GlobalNames(repl.symbolTable) :
                /\ Resolve(repl'.symbolTable, x) = Resolve(repl.symbolTable, x)
                /\ GlobalAt(repl', Resolve(repl.symbolTable, x).symbol.Index)
                      = GlobalAt(repl, Resolve(repl.symbolTable, x).symbol.Index)
          /\ Len(repl'.constants) >= Len(repl.constants)
          /\ \A k \in 1..Len(repl.constants) : repl'.constants[k] = repl.constants[k]]_vars

\* C16: a cycle whose Compile returns an error leaves the shared symbol table
\* as it was before the cycle: the same names resolve, to the same symbols,
\* and numDefinitions is unchanged.
C16_FailedCompileLeavesTable ==
    [][phase' = "compile_error" => repl'.symbolTable = repl.symbolTable]_vars

\* C19: the compiler RunVm creates with NewWithState on its own symbol table
\* resolves every built-in name to the symbol a compiler created by New
\* resolves it to.
C19_ReplResolvesBuiltins ==
    repl.cycle = 0 =>
        \A k \in 1..Len(Builtins) :
            Resolve(ReplCompiler.symbolTable, Builtins[k]) = Resolve(New.symbolTable, Builtins[k])

(***************************************************************************)
(* One symbol table under any sequence of Define, DefineStruct,            *)
(* DefineAttribute and DefineBuiltin calls.  calls records, for each call, *)
(* numDefinitions before and after it, the index of the symbol returned    *)
(* and whether the call registered a struct type.                          *)
(***************************************************************************)
TableNames == {"a", "b", "len"}

StructNames == {"P", "Q"}

TheTable == comp.symbolTable[1]

TableCall(op, name, tabs, index, registered) ==
    /\ phase = "table"
    /\ Len(calls) < MaxTableCalls
    /\ comp' = [comp EXCEPT !.symbolTable = tabs]
    /\ calls' = Append(calls, [op |-> op, name |-> name, before |-> TheTable.numDefinitions,
                               after |-> tabs[1].numDefinitions, index |-> index,
                               registered |-> registered])
    /\ UNCHANGED <<program, phase, vm, loaded, saved, repl>>

InitTable ==
    /\ program = <<>>
    /\ phase = "table"
    /\ comp = [New EXCEPT !.symbolTable = <<NewSymbolTable>>]
    /\ vm = NoVM
    /\ calls = <<>>
    /\ loaded = <<>>
    /\ saved = <<>>
    /\ repl = NoRepl

TableDefine ==
    \E name \in TableNames :
        LET r == Define(comp.symbolTable, name)
        IN  TableCall("define", name, r.tabs, r.symbol.Index, FALSE)

TableDefineStruct ==
    \E name \in StructNames :
        TableCall("define_struct", name, DefineStruct(comp.symbolTable, name),
                  ResolveStruct(DefineStruct(comp.symbolTable, name), name).symbol.Index, TRUE)

TableDefineAttribute ==
    \E name \in StructNames, attr \in {"x", "y"} :
        LET tabs == DefineAttribute(comp.symbolTable, name, attr, Integer(0))
        IN  TableCall("define_attribute", name, tabs, ResolveStruct(tabs, name).symbol.Index,
                      ~ResolveStruct(comp.symbolTable, name).ok)

TableDefineBuiltin ==
    \E i \in 1..2 :
        TableCall("define_builtin", Builtins[i], DefineBuiltin(comp.symbolTable, i - 1, Builtins[i]),
                  i - 1, FALSE)

NextTable ==
    \/ TableDefine
    \/ TableDefineStruct
    \/ TableDefineAttribute
    \/ TableDefineBuiltin

SpecTable == InitTable /\ [][NextTable]_vars

CallsWhere(P(_)) == {i \in 1..Len(calls) : P(calls[i])}

IsDefine(call) == call.op = "define"

Registered(call) == call.registered

\* every Define returns numDefinitions as it was and raises it by one, so the
\* indices of successive Define calls increase; DefineBuiltin leaves it
DefineIndices ==
    /\ \A i \in CallsWhere(IsDefine) :
          /\ calls[i].index = calls[i].before
          /\ calls[i].after = calls[i].before + 1
    /\ \A i, j \in CallsWhere(IsDefine) : i < j => calls[i].index < calls[j].index
    /\ \A i \in 1..Len(calls) : calls[i].op = "define_builtin" => calls[i].after = calls[i].before

\* C15 as stated: numDefinitions is the number of Define calls plus the number
\* of distinct struct names registered, each Define returns the index
\* numDefinitions had before the call, and DefineBuiltin never changes it.
C15_NumDefinitionsByNames ==
    phase = "table" =>
        /\ TheTable.numDefinitions
              = Cardinality(CallsWhere(IsDefine)) + Cardinality(DOMAIN TheTable.structs)
        /\ DefineIndices

\* C15, amended: numDefinitions is the number of Define calls plus the number
\* of struct registrations (every DefineStruct call, and every DefineAttribute
\* call on a struct name not yet registered), each Define returns the index
\* numDefinitions had before the call, and DefineBuiltin never changes it.
C15_NumDefinitionsByCalls ==
    phase = "table" =>
        /\ TheTable.numDefinitions
              = Cardinality(CallsWhere(IsDefine)) + Cardinality(CallsWhere(Registered))
        /\ DefineIndices

\* two struct types registered once each, a built-in defined, then a Define: slot 2
C15_Witness ==
    /\ phase = "table"
    /\ Len(calls) = 4
    /\ calls[4].op = "define" /\ calls[4].index = 2
    /\ Cardinality(DOMAIN TheTable.structs) = 2
    /\ \E i \in 1..3 : calls[i].op = "define_builtin"
    /\ \E i \in 1..3 : calls[i].op = "define_attribute"

\* a definition made by the program hides the built-in of that name
Shadowed(name) ==
    \E k \in 1..Len(comp.symbolTable) :
        /\ name \in DOMAIN comp.symbolTable[k].store
        /\ comp.symbolTable[k].store[name].Scope # BuiltinScope

\* C13: in a compiler created by New, at every scope depth, the identifier
\* naming the built-in at position k of the table compiles to GetBuiltin k,
\* unless a definition of the program has the same name.
C13_BuiltinsCompileToGetBuiltin ==
    phase = "scopes" =>
        \A k \in 1..Len(Builtins) :
            Shadowed(Builtins[k])
            \/ LET c == Compile(comp, Identifier(Builtins[k]))
               IN  /\ c.err = ""
                   /\ currentInstructions(c)
                         = currentInstructions(comp) \o Make(OpGetBuiltin, k - 1)
                   /\ c.symbolTable = comp.symbolTable

\* two scopes deep, with definitions of the program around, len not among them
C13_Witness ==
    /\ phase = "scopes"
    /\ comp.scopeIndex = 2
    /\ "x" \in DOMAIN CurrentTable.store
    /\ "y" \in DOMAIN comp.symbolTable[1].store
    /\ ~Shadowed("len")
    /\ currentInstructions(Compile(comp, Identifier("read_string"))) = Make(OpGetBuiltin, 9)

(***************************************************************************)
(* TestIndexStatement: global { int v[] = {e0, ..., e(n-1)}; } v[i]        *)
(* compiled by a compiler of New and run on a new machine.                 *)
(***************************************************************************)
\* the element expressions, and the value each one evaluates to
ElementExprs == <<I(1), I(2), InfixExpression(I(1), "+", I(2))>>

ElementValues == <<Integer(1), Integer(2), Integer(3)>>

\* the index as the parser produces it: -1 is the prefix expression -(1)
IndexLiteral(i) == IF i < 0 THEN PrefixExpression("-", I(0 - i)) ELSE I(i)

IndexProgram(elems, i) ==
    << GlobalStatement(<<ArrayStatement("v", [k \in 1..Len(elems) |-> ElementExprs[elems[k]]])>>),
       Es(IndexExpression(Id("v"), IndexLiteral(i))) >>

InitIndex ==
    /\ program = <<>>
    /\ phase = "index"
    /\ comp = New
    /\ vm = NoVM
    /\ calls = <<>>
    /\ loaded = <<>>
    /\ saved = <<>>
    /\ repl = NoRepl

\* runVmTests on one case of TestIndexStatement
IndexRun ==
    /\ phase = "index"
    /\ \E elems \in SeqsUpTo(1..Len(ElementExprs), MaxLen), i \in (0 - 2)..(MaxLen + 1) :
          \E c \in {CompileProgram(New, IndexProgram(elems, i))} :
              /\ program' = [elements |-> elems, index |-> i]
              /\ comp' = c
              /\ vm' = IF c.err = "" THEN Run(NewVM(Bytecode(c), EmptyMap)) ELSE NoVM
              /\ phase' = IF c.err = "" THEN "indexed" ELSE "compile_error"
    /\ UNCHANGED <<calls, loaded, saved, repl>>

NextIndex == IndexRun

SpecIndex == InitIndex /\ [][NextIndex]_vars

\* C14: v[i] on the array of the literal {e0, ..., e(n-1)} is the value of e_i
\* for 0 <= i < n and Null for every other integer i, and never an error.
C14_IndexInOrOutOfRange ==
    phase \notin {"index"} =>
        /\ phase = "indexed"
        /\ vm.err = ""
        /\ LastPoppedStackElem(vm)
              = IF 0 <= program.index /\ program.index < Len(program.elements)
                THEN ElementValues[program.elements[program.index + 1]]
                ELSE Null

\* three different elements, the last one read
C14_Witness ==
    /\ phase = "indexed"
    /\ program.elements = <<3, 1, 2>>
    /\ program.index = 2
    /\ LastPoppedStackElem(vm) = Integer(2)

\* an index below 0 and an index past the end read Null
C14_NullWitness ==
    /\ phase = "indexed"
    /\ program.elements = <<3, 1, 2>>
    /\ program.index \in {0 - 1, 3}
    /\ LastPoppedStackElem(vm) = Null

(***************************************************************************)
(* Assignment statements.  A program is compiled as it is and with one     *)
(* assignment statement put at one place in it: between two statements at  *)
(* top level, in a function body, or in a block of an if-expression.       *)
(***************************************************************************)
Assignments ==
    { AssignmentStatement(Id("x"), I(5)),
      AssignmentStatement(Id("g"), I(5)),
      AssignmentStatement(Id("g"), Id("nope")),
      AssignmentStatement(IndexExpression(Id("v"), I(0)), I(5)) }

InsertAt(stmts, p, a) == SubSeq(stmts, 1, p - 1) \o <<a>> \o SubSeq(stmts, p, Len(stmts))

\* the assignment names the function: Compile takes it as the return assignment
IsReturnOf(a, fn) == a.Left.kind = "Identifier" /\ a.Left.Name = fn.FnName

RECURSIVE InsertionsList(_, _), InsertionsNode(_, _)
\* the statement lists with a put at one place in or below stmts
InsertionsList(stmts, a) ==
    {InsertAt(stmts, p, a) : p \in 1..(Len(stmts) + 1)}
    \cup UNION {{[stmts EXCEPT ![k] = n] : n \in InsertionsNode(stmts[k], a)} : k \in 1..Len(stmts)}

InsertionsNode(node, a) ==
    CASE node.kind = "FunctionStatement" ->
            IF IsReturnOf(a, node) THEN {}
            ELSE {[node EXCEPT !.Body = b] : b \in InsertionsList(node.Body, a)}
      [] node.kind = "ExpressionStatement" /\ node.Expression.kind = "IfExpression" ->
            {[node EXCEPT !.Expression.Consequence.Statements = b] :
                b \in InsertionsList(node.Expression.Consequence.Statements, a)}
            \cup (IF node.Expression.Alternative.kind # "BlockStatement" THEN {}
                  ELSE {[node EXCEPT !.Expression.Alternative.Statements = b] :
                           b \in InsertionsList(node.Expression.Alternative.Statements, a)})
      [] OTHER -> {}

\* one definition, one use, or a scenario
AssignPrograms == {<<k>> : k \in DefIdx \cup UseIdx} \cup Scenarios

InitAssign ==
    /\ program = <<>>
    /\ phase = "assign"
    /\ comp = New
    /\ vm = NoVM
    /\ calls = <<>>
    /\ loaded = <<>>
    /\ saved = <<>>
    /\ repl = NoRepl

\* comp: the program with the assignment compiled; saved: the program compiled
AssignCompile ==
    /\ phase = "assign"
    /\ \E prog \in AssignPrograms, a \in Assignments :
          \E ins \in InsertionsList(Statements(prog), a) :
              /\ program' = prog
              /\ loaded' = ins
              /\ comp' = CompileProgram(New, ins)
              /\ saved' = <<CompileProgram(New, Statements(prog))>>
    /\ phase' = "assigned"
    /\ UNCHANGED <<vm, calls, repl>>

NextAssign == AssignCompile

SpecAssign == InitAssign /\ [][NextAssign]_vars

AfterOnlyIf ==
    /\ phase = "run"
    /\ Len(program) = 1
    /\ LastStatement.kind = "ExpressionStatement"
    /\ LastStatement.Expression.kind = "IfExpression"
    /\ vm.err = ""
    /\ vm.framesIndex = 1
    /\ NextIp(vm) = Len(currentInstructions(comp)) - 1

\* C18: an if-expression leaves the stack exactly one entry higher than it
\* was before its condition was evaluated, on either path and for every
\* block, the empty block included: after the only if-expression of a
\* program sp is 1.
C18_IfLeavesOneEntry ==
    AfterOnlyIf => vm.sp = 1

(***************************************************************************)
(* Struct declarations: structs { s { t1 a1, t2 a2; }; } compiled by a     *)
(* compiler of New.  An attribute carries the default expression the       *)
(* parser makes for its declared type.                                     *)
(***************************************************************************)
AttrTypes == {"int", "bool", "float", "string", "point"}

\* Parser.defaultValueForType: nil for a type other than int, float, bool
defaultValueForType(type) ==
    CASE type = "int" -> IntegerLiteral(0)
      [] type = "float" -> FloatLiteral(0)
      [] type = "bool" -> BooleanLiteral(FALSE)
      [] OTHER -> NoNode

ParsedAttribute(name, type, isArray) ==
    Attribute(name, type, isArray,
              IF isArray THEN ArrayStatement("", <<defaultValueForType(type)>>)
              ELSE defaultValueForType(type))

AttrNames == <<"a1", "a2", "a3">>

InitStruct ==
    /\ program = <<>>
    /\ phase = "struct"
    /\ comp = New
    /\ vm = NoVM
    /\ calls = <<>>
    /\ loaded = <<>>
    /\ saved = <<>>
    /\ repl = NoRepl

\* Compile of a structs block that declares the struct s
StructCompile ==
    /\ phase = "struct"
    /\ \E kinds \in SeqsUpTo(AttrTypes \X BOOLEAN, MaxAttrs) :
          LET attrs == [i \in 1..Len(kinds) |->
                            ParsedAttribute(AttrNames[i], kinds[i][1], kinds[i][2])]
          IN  /\ program' = attrs
              /\ comp' = CompileProgram(New, <<StructsStatement(<<StructNode("s", attrs)>>)>>)
    /\ phase' = "structs"
    /\ UNCHANGED <<vm, calls, loaded, saved, repl>>

NextStruct == StructCompile

SpecStruct == InitStruct /\ [][NextStruct]_vars

\* the default of a declared type, as specified
TypedDefault(type) ==
    CASE type = "int" -> Integer(0)
      [] type = "bool" -> Boolean(FALSE)
      [] type = "float" -> Float(0)
      [] type = "string" -> String("")
      [] OTHER -> Null

\* C20: the default registered for each attribute of a declared struct is
\* the one of its declared type: Integer 0, Boolean false, Float 0.0, empty
\* String, a one-element Array of the element type's default for an array
\* attribute, Null for any other type.
C20_AttributeDefaultsByType ==
    (phase = "structs" /\ Len(program) > 0) =>
        /\ comp.err = ""
        /\ ResolveStruct(comp.symbolTable, "s").ok
        /\ \A i \in 1..Len(program) :
              /\ program[i].AttrName \in DOMAIN ResolveStruct(comp.symbolTable, "s").symbol.Atributes
              /\ ResolveStruct(comp.symbolTable, "s").symbol.Atributes[program[i].AttrName]
                    = IF program[i].IsArray THEN Array(<<TypedDefault(program[i].Type)>>)
                      ELSE TypedDefault(program[i].Type)

(***************************************************************************)
(* The built-ins, called with argument lists of values and, as a program   *)
(* calls them, through the compiler and the machine.                       *)
(***************************************************************************)
ArgValues ==
    { Integer(0 - 1), Integer(2), Float(2), String("ab"), Null,
      Array(<<Integer(104), Integer(105)>>), Array(<<Integer(1), Boolean(TRUE)>>),
      Struct(MapPut(MapPut(EmptyMap, "x", Integer(0)), "y", Integer(5))) }

\* "12\n" then "hi\n", the keys x and y visited in either order, or no input
Stdins ==
    { NoInput,
      [lines |-> << <<49, 50, 10>>, <<104, 105, 10>> >>, keys |-> <<"x", "y">>],
      [lines |-> << <<49, 50, 10>>, <<104, 105, 10>> >>, keys |-> <<"y", "x">>] }

\* structs { s { type a1; }; } global { s v; } name(args);
BuiltinProgram(name, type, args) ==
    << StructsStatement(<<StructNode("s", <<ParsedAttribute("a1", type, FALSE)>>)>>),
       GlobalStatement(<<VariableStatement("s", "v", NoNode)>>),
       Es(CallOf(name, args)) >>

ArgLists == { <<>>, <<Id("v")>>, <<AccessorExpression(Id("v"), "a1")>> }

InitBuiltins ==
    /\ program = <<>>
    /\ phase = "builtins"
    /\ comp = New
    /\ vm = NoVM
    /\ calls = <<>>
    /\ loaded = <<>>
    /\ saved = <<>>
    /\ repl = NoRepl

\* Builtins[k].Builtin.Fn called with a list of values
BuiltinCall ==
    /\ phase = "builtins"
    /\ \E k \in 0..(Len(Builtins) - 1), args \in SeqsUpTo(ArgValues, MaxArgs), stdin \in Stdins :
          calls' = <<[name |-> Builtins[k + 1], args |-> args, stdin |-> stdin,
                      result |-> BuiltinFn(k, args, stdin).result,
                      after |-> BuiltinFn(k, args, stdin).args]>>
    /\ phase' = "called"
    /\ UNCHANGED <<program, comp, vm, loaded, saved, repl>>

\* a program that calls a built-in on a struct or on an attribute of it
BuiltinRun ==
    /\ phase = "builtins"
    /\ \E k \in 1..Len(Builtins), type \in AttrTypes, args \in ArgLists :
          \E c \in {CompileProgram(New, BuiltinProgram(Builtins[k], type, args))} :
              /\ c.err = ""
              /\ program' = [name |-> Builtins[k], type |-> type, args |-> args]
              /\ comp' = c
              /\ vm' = Run(NewVM(Bytecode(c), EmptyMap))
    /\ phase' = "ran"
    /\ UNCHANGED <<calls, loaded, saved, repl>>

NextBuiltins ==
    \/ BuiltinCall
    \/ BuiltinRun

SpecBuiltins == InitBuiltins /\ [][NextBuiltins]_vars

\* the built-ins that check their arguments, with the number they take
Arity ==
    [name \in {"len", "square_root", "write_all", "write_string", "read_all", "read_string"} |-> 1]
    @@ [name \in {"pow", "gen"} |-> 2]

IsNumber(v) == v.t \in {"INTEGER", "FLOAT"}

\* the argument kinds each built-in works on
KindsAccepted(name, args) ==
    CASE name = "len" -> args[1].t \in {"ARRAY", "STRING"}
      [] name \in {"pow"} -> IsNumber(args[1]) /\ IsNumber(args[2])
      [] name = "square_root" -> IsNumber(args[1])
      [] name = "gen" -> args[1].t = "INTEGER" /\ args[2].t = "INTEGER"
      [] name \in {"write_all", "read_all"} -> args[1].t \in {"ARRAY", "STRUCT"}
      [] name = "write_string" ->
            /\ args[1].t = "ARRAY"
            /\ \A k \in 1..Len(args[1].Elements) : args[1].Elements[k].t = "INTEGER"
      [] name = "read_string" -> args[1].t = "ARRAY"

WrongArguments(name, args) == Len(args) # Arity[name] \/ ~KindsAccepted(name, args)

\* C12: len, pow, square_root, gen, write_all, write_string, read_all and
\* read_string never panic, whatever the number and the kinds of their
\* arguments; with a wrong number or a wrong kind of argument the result is
\* an Error and the arguments are as they were.
C12_BuiltinsRejectWithErrors ==
    /\ (phase = "called" /\ calls[1].name \in DOMAIN Arity) =>
          /\ calls[1].result # GoPanic
          /\ WrongArguments(calls[1].name, calls[1].args) =>
                /\ calls[1].result.t = "ERROR"
                /\ calls[1].after = calls[1].args
    /\ (phase = "ran" /\ program.name \in DOMAIN Arity) => vm.err # "panic"

(***************************************************************************)
(* aggregates held by reference: a heap of the Array objects and of the    *)
(* attribute maps, and the global slots and stack entries that point at    *)
(* them                                                                    *)
(***************************************************************************)
MaxHolders == 2      \* stack entries that hold a reference

Ref(a) == [t |-> "REF", addr |-> a]

\* structs { s { int x; int y; } }
ShareType == StructsStatement(<<StructNode("s", <<ParsedAttribute("x", "int", FALSE),
                                                  ParsedAttribute("y", "int", FALSE)>>)>>)

\* the map made by DefineStruct for s is the first object of the heap
TypeMap == 1

StructVars == {"a", "b"}

ArrayVars == {"v"}

ShareArrays == { <<Integer(1), Integer(2), Integer(3)>>, <<Integer(7)>> }

\* the lines typed: 7 and 8; hi; the one character e-acute; hijk
ShareStdins ==
    { NoInput,
      [lines |-> << <<55, 10>>, <<56, 10>> >>, keys |-> <<"x", "y">>],
      [lines |-> << <<104, 105, 10>> >>, keys |-> <<"y", "x">>],
      [lines |-> << <<233, 10>> >>, keys |-> <<"x", "y">>],
      [lines |-> << <<104, 105, 106, 107, 10>> >>, keys |-> <<"x", "y">>] }

\* the object a holder points at: the Array, or the Struct with its map
Deref(heap, v) ==
    IF v.t = "REF" THEN heap[v.addr]
    ELSE IF v.t = "STRUCT" THEN Struct(heap[v.Attributes.addr])
    ELSE v

\* the address a holder points at
AddrOf(v) == IF v.t = "REF" THEN v.addr ELSE v.Attributes.addr

\* arg.Elements[i] = ..., arg.Attributes[key] = ...: the object changes in place
StoreThrough(heap, v, new) ==
    [heap EXCEPT ![AddrOf(v)] = IF v.t = "REF" THEN new ELSE new.Attributes]

InitShare ==
    /\ program = <<ShareType>>
    /\ phase = "share"
    /\ \E c \in {CompileProgram(New, <<ShareType>>)} :
          /\ comp = c
          /\ vm = [heap |-> <<ResolveStruct(c.symbolTable, "s").symbol.Atributes>>,
                   globals |-> EmptyMap, stack |-> <<>>]
    /\ calls = <<>>
    /\ loaded = <<>>
    /\ saved = <<>>
    /\ repl = NoRepl

\* global { s x; }: the Struct of the constant is built on the map of the type
ShareDeclareStruct ==
    /\ phase = "share"
    /\ \E x \in StructVars \ DOMAIN vm.globals :
          /\ ResolveStruct(comp.symbolTable, "s").ok
          /\ vm' = [vm EXCEPT !.globals =
                        MapPut(vm.globals, x, [t |-> "STRUCT", Attributes |-> Ref(TypeMap)])]
    /\ UNCHANGED <<program, phase, comp, calls, loaded, saved, repl>>

\* global { int x[] = {...}; }: OpArray builds a new Array
ShareDeclareArray ==
    /\ phase = "share"
    /\ \E x \in ArrayVars \ DOMAIN vm.globals, es \in ShareArrays :
          vm' = [vm EXCEPT !.heap = Append(vm.heap, Array(es)),
                           !.globals = MapPut(vm.globals, x, Ref(Len(vm.heap) + 1))]
    /\ UNCHANGED <<program, phase, comp, calls, loaded, saved, repl>>

\* OpGetGlobal: the stack entry points at the object of the slot
ShareGetGlobal ==
    /\ phase = "share"
    /\ Len(vm.stack) < MaxHolders
    /\ \E x \in DOMAIN vm.globals :
          vm' = [vm EXCEPT !.stack = Append(vm.stack, [ref |-> vm.globals[x], from |-> x])]
    /\ UNCHANGED <<program, phase, comp, calls, loaded, saved, repl>>

\* OpCall 1 of the built-in name on the top of the stack
ShareCall(name) ==
    /\ phase = "share"
    /\ vm.stack # <<>>
    /\ \E stdin \in ShareStdins :
          LET arg == vm.stack[Len(vm.stack)]
              out == IF name = "read_all" THEN BuiltinReadAll(<<Deref(vm.heap, arg.ref)>>, stdin)
                     ELSE BuiltinReadString(<<Deref(vm.heap, arg.ref)>>, stdin)
          IN  /\ vm' = [vm EXCEPT !.heap = IF out.result = GoNil
                                           THEN StoreThrough(vm.heap, arg.ref, out.args[1])
                                           ELSE vm.heap,
                                  !.stack = SubSeq(vm.stack, 1, Len(vm.stack) - 1)]
              /\ calls' = <<[name |-> name, arg |-> arg, stdin |-> stdin,
                             result |-> out.result]>>
              /\ saved' = vm.heap
    /\ UNCHANGED <<program, phase, comp, loaded, repl>>

ShareReadAll == ShareCall("read_all")

ShareReadString == ShareCall("read_string")

NextShare ==
    \/ ShareDeclareStruct
    \/ ShareDeclareArray
    \/ ShareGetGlobal
    \/ ShareReadAll
    \/ ShareReadString

SpecShare == InitShare /\ [][NextShare]_vars

\* C21: two variables of one struct type have independent attributes: read_all
\* on one of them changes neither the attributes of another nor the defaults
\* registered for the type.
C21_StructVariablesIndependent ==
    (calls # <<>> /\ calls[1].name = "read_all" /\ calls[1].arg.ref.t = "STRUCT") =>
        /\ \A y \in (DOMAIN vm.globals \cap StructVars) \ {calls[1].arg.from} :
              Deref(vm.heap, vm.globals[y]) = Deref(saved, vm.globals[y])
        /\ ResolveStruct(comp.symbolTable, "s").symbol.Atributes = vm.heap[TypeMap]

\* the line read_string reads, without its newline
LineRead(stdin) ==
    LET line == LineAt(stdin, 1)
    IN  IF line # <<>> /\ line[Len(line)] = 10 THEN SubSeq(line, 1, Len(line) - 1) ELSE line

\* C22: after read_all or read_string on an array, every global slot and stack
\* entry that refers to the array sees the new elements, the length is as
\* before, and read_string leaves the code of the i-th character at position i
\* and 0 at every position past the line.
C22_ArrayMutationSeenByHolders ==
    (calls # <<>> /\ calls[1].arg.ref.t = "REF" /\ calls[1].result = GoNil) =>
        LET a == calls[1].arg.ref.addr
            new == vm.heap[a].Elements
            input == LineRead(calls[1].stdin)
        IN  /\ Len(new) = Len(saved[a].Elements)
            /\ \A x \in DOMAIN vm.globals :
                  (vm.globals[x].t = "REF" /\ vm.globals[x].addr = a) =>
                      Deref(vm.heap, vm.globals[x]).Elements = new
            /\ \A k \in 1..Len(vm.stack) :
                  (vm.stack[k].ref.t = "REF" /\ vm.stack[k].ref.addr = a) =>
                      Deref(vm.heap, vm.stack[k].ref).Elements = new
            /\ calls[1].name = "read_all" =>
                  \A i \in 1..Len(new) :
                      new[i] = Integer(parseInput(LineAt(calls[1].stdin, i)))
            /\ calls[1].name = "read_string" =>
                  \A i \in 1..Len(new) :
                      new[i] = IF i <= Len(input) THEN Integer(input[i]) ELSE Integer(0)

(***************************************************************************)
(* names: top-level statements that declare one name, compiled one after   *)
(* another by one Compiler                                                 *)
(***************************************************************************)
MaxDecls == 3        \* statements compiled by one Compiler

DeclNames == {"k", "f", "len"}

DeclKinds == {"global", "const", "const2", "fn", "fnself", "fncall"}

\* global { int n = 1; }   const { int n = 2; }   const { int m = 3; int n = 4; }
\* fn n() int { n = 5; }   fn n() int { n; }      fn n() int { n = n(); }
DeclStatement(kind, n) ==
    CASE kind = "global" -> GlobalStatement(<<IntVar(n, I(1))>>)
      [] kind = "const" -> ConstStatement(<<IntVar(n, I(2))>>)
      [] kind = "const2" -> ConstStatement(<<IntVar("m", I(3)), IntVar(n, I(4))>>)
      [] kind = "fn" -> Fn(n, <<>>, "int", <<Ret(n, I(5))>>)
      [] kind = "fnself" -> Fn(n, <<>>, "int", <<Es(Id(n))>>)
      [] kind = "fncall" -> Fn(n, <<>>, "int", <<Ret(n, CallOf(n, <<>>))>>)

InitNames ==
    /\ program = <<>>
    /\ phase = "names"
    /\ comp = New
    /\ vm = NoVM
    /\ calls = <<>>
    /\ loaded = <<>>
    /\ saved = EmptyMap
    /\ repl = NoRepl

\* the names a const block defined, with the symbols they got
ConstsOf(before, after, kind, n) ==
    LET names == IF kind = "const" THEN {n} ELSE IF kind = "const2" THEN {"m", n} ELSE {}
        defined == {x \in names : /\ ~Resolve(before.symbolTable, x).ok
                                  /\ Resolve(after.symbolTable, x).ok}
    IN  [x \in defined |-> Resolve(after.symbolTable, x).symbol]

\* Compiler.Compile of one more statement; the Compiler is not used after an error
NamesCompile(kind) ==
    /\ phase = "names"
    /\ Len(program) < MaxDecls
    /\ \E n \in DeclNames :
          \E c \in {Compile(comp, DeclStatement(kind, n))} :
              /\ program' = Append(program, DeclStatement(kind, n))
              /\ calls' = <<[kind |-> kind, name |-> n, before |-> comp]>>
              /\ comp' = c
              /\ phase' = IF c.err = "" THEN "names" ELSE "names_error"
              /\ saved' = LET new == ConstsOf(comp, c, kind, n)
                          IN  [x \in DOMAIN saved \cup DOMAIN new |->
                                  IF x \in DOMAIN saved THEN saved[x] ELSE new[x]]
    /\ UNCHANGED <<vm, loaded, repl>>

NamesGlobal == NamesCompile("global")

NamesConst == NamesCompile("const")

NamesConstTwo == NamesCompile("const2")

NamesFunction == NamesCompile("fn")

NamesFunctionSelf == NamesCompile("fnself")

NamesFunctionCall == NamesCompile("fncall")

NextNames ==
    \/ NamesGlobal
    \/ NamesConst
    \/ NamesConstTwo
    \/ NamesFunction
    \/ NamesFunctionSelf
    \/ NamesFunctionCall

SpecNames == InitNames /\ [][NextNames]_vars

\* the table before the declaration of the last const block that was reached
TableAtLastDeclaration ==
    LET b == calls[1].before.symbolTable
    IN  IF calls[1].kind = "const2" /\ ~Resolve(b, "m").ok THEN Define(b, "m").tabs ELSE b

\* C23: a const block that declares a name that already resolves (a global, an
\* earlier const, a function, a built-in) makes Compile return an error, and
\* the failing declaration allocates no slot and defines no symbol.
C23_ConstRedeclarationFails ==
    (/\ calls # <<>>
     /\ calls[1].kind \in {"const", "const2"}
     /\ \/ Resolve(TableAtLastDeclaration, calls[1].name).ok
        \/ calls[1].kind = "const2" /\ Resolve(calls[1].before.symbolTable, "m").ok) =>
        /\ comp.err # ""
        /\ phase = "names_error"
        /\ comp.symbolTable = TableAtLastDeclaration

C23_Witness ==
    /\ calls # <<>>
    /\ calls[1].kind = "const"
    /\ calls[1].name = "k"
    /\ Len(program) = 3
    /\ Resolve(calls[1].before.symbolTable, "k").ok
    /\ comp.err # ""

\* C24: a name defined by a const block keeps the slot it got there: no later
\* global block, const block or function definition binds it again.
C24_ConstNeverRebound ==
    \A n \in DOMAIN saved :
        /\ Resolve(comp.symbolTable, n).ok
        /\ Resolve(comp.symbolTable, n).symbol = saved[n]

\* the CompiledFunction the last statement added to the constants
LastFunction == comp.constants[Len(comp.constants)]

C25_EarlierWitness ==
    /\ calls # <<>>
    /\ calls[1].kind = "fnself"
    /\ Resolve(calls[1].before.symbolTable, calls[1].name).symbol.Scope = GlobalScope
    /\ comp.err = ""

\* C26: whenever Compile has returned, with or without an error, the scope
\* index is 0 and the current symbol table is the global one, so Bytecode
\* returns the top-level instructions.
C26_CompileReturnsAtTopLevel ==
    calls # <<>> =>
        /\ comp.scopeIndex = 0
        /\ Len(comp.symbolTable) = 1
        /\ Bytecode(comp).Instructions = comp.scopes[1].instructions

\* C27: an accessor x.f compiles to the code of x followed by GetAttribute k
\* where constant k is the String f, so that running it replaces the Struct on
\* the top of the stack by its attribute f.
C27_AccessorNamesItsAttribute ==
    Compiled =>
        \A ins \in Buffers :
            \A pos \in InstructionStarts(ins) :
                OpAt(ins, pos) = OpGetAttribute =>
                    /\ OperandAt(ins, pos) < Len(comp.constants)
                    /\ comp.constants[OperandAt(ins, pos) + 1].t = "STRING"

(***************************************************************************)
(* loops and update statements                                             *)
(***************************************************************************)
\* for (n = 0; 3; 1) { n; }   while (true) { n; }   n++   n--   n += 1   n -= 1   n *= 1
LoopStatement(kind, n) ==
    CASE kind = "WhileStatement" ->
            WhileStatement(BooleanLiteral(TRUE), BlockStatement(<<Es(Id(n))>>))
      [] kind = "ForStatement" ->
            [kind |-> kind, Var |-> Id(n), Start |-> I(0), End |-> I(3), Increment |-> I(1),
             Body |-> BlockStatement(<<Es(Id(n))>>)]
      [] kind \in {"IncrementStatement", "DecrementStatement"} -> [kind |-> kind, Var |-> Id(n)]
      [] OTHER -> [kind |-> kind, Var |-> Id(n), Quantity |-> I(1)]

InitLoops ==
    /\ program = <<>>
    /\ phase = "loops"
    /\ comp = New
    /\ vm = NoVM
    /\ calls = <<>>
    /\ loaded = <<>>
    /\ saved = <<>>
    /\ repl = NoRepl

\* Compiler.Compile of a loop or an update statement on the name n
LoopCompile ==
    /\ phase = "loops"
    /\ Len(program) < MaxStmts
    /\ \E kind \in UncompiledKinds, n \in DeclNames :
          /\ program' = Append(program, LoopStatement(kind, n))
          /\ calls' = <<[kind |-> kind, name |-> n, before |-> comp]>>
          /\ comp' = Compile(comp, LoopStatement(kind, n))
    /\ UNCHANGED <<phase, vm, loaded, saved, repl>>

\* global { int n = 1; } before the loops
LoopDeclare ==
    /\ phase = "loops"
    /\ Len(program) < MaxStmts
    /\ \E n \in DeclNames :
          /\ program' = Append(program, DeclStatement("global", n))
          /\ comp' = Compile(comp, DeclStatement("global", n))
    /\ calls' = <<>>
    /\ UNCHANGED <<phase, vm, loaded, saved, repl>>

NextLoops == LoopCompile \/ LoopDeclare

SpecLoops == InitLoops /\ [][NextLoops]_vars

\* C28: Compile of a for, a while, ++, --, +=, -= or *= either emits
\* instructions or returns an error: it never succeeds having emitted nothing.
C28_LoopsCompileOrFail ==
    (calls # <<>> /\ calls[1].kind \in UncompiledKinds) =>
        \/ comp.err # ""
        \/ Len(currentInstructions(comp)) > Len(currentInstructions(calls[1].before))

(***************************************************************************)
(* struct types and scopes                                                 *)
(***************************************************************************)
InitStructScopes ==
    /\ program = <<>>
    /\ phase = "struct_scopes"
    /\ comp = New
    /\ vm = NoVM
    /\ calls = <<>>
    /\ loaded = <<>>
    /\ saved = <<{}>>
    /\ repl = NoRepl

\* c.symbolTable.DefineStruct(name); saved keeps, table by table, the names registered
StructScopeDefine ==
    /\ phase = "struct_scopes"
    /\ TotalDefinitions(comp.symbolTable) < MaxDefs
    /\ \E name \in StructNames :
          /\ comp' = [comp EXCEPT !.symbolTable = DefineStruct(comp.symbolTable, name)]
          /\ saved' = [saved EXCEPT ![Len(saved)] = saved[Len(saved)] \cup {name}]
    /\ calls' = <<>>
    /\ UNCHANGED <<program, phase, vm, loaded, repl>>

\* c.enterScope()
StructScopeEnter ==
    /\ phase = "struct_scopes"
    /\ comp.scopeIndex < MaxScopeDepth
    /\ comp' = enterScope(comp)
    /\ saved' = Append(saved, {})
    /\ calls' = <<>>
    /\ UNCHANGED <<program, phase, vm, loaded, repl>>

\* c.leaveScope()
StructScopeLeave ==
    /\ phase = "struct_scopes"
    /\ comp.scopeIndex > 0
    /\ comp' = leaveScope(comp)
    /\ saved' = SubSeq(saved, 1, Len(saved) - 1)
    /\ calls' = <<>>
    /\ UNCHANGED <<program, phase, vm, loaded, repl>>

\* Compile of the declaration name v; in the current scope
StructScopeDeclare ==
    /\ phase = "struct_scopes"
    /\ Len(program) < MaxStmts
    /\ \E name \in StructNames :
          /\ program' = Append(program, VariableStatement(name, "v", NoNode))
          /\ comp' = Compile(comp, VariableStatement(name, "v", NoNode))
          /\ calls' = <<[type |-> name, before |-> comp]>>
    /\ UNCHANGED <<phase, vm, loaded, saved, repl>>

NextStructScopes ==
    \/ StructScopeDefine
    \/ StructScopeEnter
    \/ StructScopeLeave
    \/ StructScopeDeclare

SpecStructScopes == InitStructScopes /\ [][NextStructScopes]_vars

\* C29: resolve_struct succeeds exactly for the names registered in the
\* current table and never consults an outer table: in a function scope a
\* struct type of the top level is not found, and a variable declared there
\* with that type is not compiled as a struct.
C29_ResolveStructCurrentTableOnly ==
    /\ \A name \in StructNames :
          ResolveStruct(comp.symbolTable, name).ok <=> name \in saved[Len(saved)]
    /\ calls # <<>> =>
          (Len(comp.constants) > Len(calls[1].before.constants)
              <=> calls[1].type \in saved[Len(saved)])

\* a struct type of the top level looked up, and used, in a function scope
C29_Witness ==
    /\ comp.scopeIndex = 1
    /\ "P" \in saved[1]
    /\ "P" \notin saved[2]
    /\ calls # <<>>
    /\ calls[1].type = "P"
    /\ Len(comp.constants) = Len(calls[1].before.constants)

\* every jump of every buffer targets an offset after its own
JumpsForward ==
    \A ins \in Buffers : \A pos \in JumpStarts(ins) : OperandAt(ins, pos) > pos

\* a step of the machine leaves the ip of every frame that stays where it was or further
IpForward ==
    (phase = "run" /\ phase' \in {"run", "runtime_error"}) =>
        \A k \in 1..vm.framesIndex :
            k <= vm'.framesIndex => vm'.frames[k].ip >= vm.frames[k].ip

\* C30: every Jump and JumpNotTruthy the compiler emits targets an offset
\* strictly greater than its own, and during execution the ip of a frame
\* never moves backward.
C30_JumpsOnlyForward == [](Compiled => JumpsForward) /\ [][IpForward]_vars

\* the machine stands on the target of a Jump it has passed
C30_Witness ==
    /\ phase = "run"
    /\ \E pos \in JumpStarts(currentFrame(vm).fn.Instructions) :
          /\ OpAt(currentFrame(vm).fn.Instructions, pos) = OpJump
          /\ OperandAt(currentFrame(vm).fn.Instructions, pos) = NextIp(vm)
          /\ NextIp(vm) > pos

====
